---- MODULE Spec2Model ----
(***************************************************************************)
(* A model of the three markdown dialect converters of src/tools:          *)
(*   agents2rules.py, instructions2rules.py, prompts2commands.py.          *)
(* Texts are sequences of one-character strings, so that splitting,        *)
(* trimming, joining and replacing are computed as the Python code         *)
(* computes them.                                                          *)
(***************************************************************************)
EXTENDS Integers, Sequences, FiniteSets, TLC

(***************************************************************************)
(* Characters and Python's str methods                                     *)
(***************************************************************************)

\* The characters of a string literal, as a sequence of one-character strings.
Chars(s) == [i \in 1..Len(s) |-> SubSeq(s, i, i)]

Range(f) == {f[i] : i \in DOMAIN f}

Min(S) == CHOOSE x \in S : \A y \in S : x <= y

\* The whitespace str.strip() removes (of the characters the model uses).
Whitespace == {" ", "\t", "\n", "\r", "\f"}

\* str.strip()
Strip(s) ==
  LET keep == {i \in 1..Len(s) : s[i] \notin Whitespace}
  IN  IF keep = {} THEN <<>>
      ELSE SubSeq(s, Min(keep), CHOOSE j \in keep : \A k \in keep : k <= j)

\* str.rstrip()
RStrip(s) ==
  LET keep == {i \in 1..Len(s) : s[i] \notin Whitespace}
  IN  IF keep = {} THEN <<>>
      ELSE SubSeq(s, 1, CHOOSE j \in keep : \A k \in keep : k <= j)

\* str.startswith(prefix)
StartsWith(s, prefix) ==
  Len(prefix) <= Len(s) /\ SubSeq(s, 1, Len(prefix)) = prefix

\* str.endswith(suffix)
EndsWith(s, suffix) ==
  Len(suffix) <= Len(s) /\ SubSeq(s, Len(s) - Len(suffix) + 1, Len(s)) = suffix

\* Whether sub occurs in s at index i.
MatchAt(s, i, sub) ==
  i + Len(sub) - 1 <= Len(s) /\ SubSeq(s, i, i + Len(sub) - 1) = sub

\* str.find(sub), 1-based; 0 when sub does not occur at or after index from.
FindFrom(s, sub, from) ==
  LET at == {i \in from..Len(s) : MatchAt(s, i, sub)}
  IN  IF at = {} THEN 0 ELSE Min(at)

RECURSIVE Replace(_, _, _)
\* str.replace(old, new) for a non-empty old: every occurrence, left to
\* right, without rescanning what was inserted.
Replace(s, old, new) ==
  LET i == FindFrom(s, old, 1)
  IN  IF i = 0 THEN s
      ELSE SubSeq(s, 1, i - 1) \o new
             \o Replace(SubSeq(s, i + Len(old), Len(s)), old, new)

\* The line boundaries of str.splitlines() (of the characters the model uses).
LineBreaks == {"\n", "\r", "\f"}

RECURSIVE SplitLines(_)
\* str.splitlines(): lines end at "\n", "\r\n", "\r" or "\f"; the terminators
\* are dropped and a final terminator opens no further line.
SplitLines(s) ==
  LET brk == {i \in 1..Len(s) : s[i] \in LineBreaks}
  IN  IF s = <<>> THEN <<>>
      ELSE IF brk = {} THEN <<s>>
      ELSE LET i == Min(brk)
               n == IF s[i] = "\r" /\ i < Len(s) /\ s[i + 1] = "\n" THEN 2 ELSE 1
           IN  <<SubSeq(s, 1, i - 1)>> \o SplitLines(SubSeq(s, i + n, Len(s)))

RECURSIVE JoinLines(_)
\* "\n".join(lines)
JoinLines(lines) ==
  IF lines = <<>> THEN <<>>
  ELSE IF Len(lines) = 1 THEN lines[1]
  ELSE lines[1] \o <<"\n">> \o JoinLines(Tail(lines))

RECURSIVE SplitOn(_, _)
\* str.split(sep) for a one-character sep: always at least one part.
SplitOn(s, sep) ==
  LET at == {i \in 1..Len(s) : s[i] = sep}
  IN  IF at = {} THEN <<s>>
      ELSE <<SubSeq(s, 1, Min(at) - 1)>>
             \o SplitOn(SubSeq(s, Min(at) + 1, Len(s)), sep)

(***************************************************************************)
(* Python values.  Every value is a record [t, v]: t is the type and v a   *)
(* sequence (the characters of a str, the items of a list, ...), so that   *)
(* values of different types can be told apart without comparing their     *)
(* contents.  A raised exception is the value [t |-> "raise"].             *)
(***************************************************************************)

PyStr(cs) == [t |-> "str", v |-> cs]
PyInt(n) == [t |-> "int", v |-> <<n>>]
PyBool(b) == [t |-> "bool", v |-> <<b>>]
PyNone == [t |-> "none", v |-> <<>>]
PyList(items) == [t |-> "list", v |-> items]
PyTuple(items) == [t |-> "tuple", v |-> items]
PySet(items) == [t |-> "set", v |-> items]
PyDict(items) == [t |-> "dict", v |-> items]
Raise(exc) == [t |-> "raise", v |-> <<exc>>]

IsRaise(val) == val.t = "raise"
IsStr(val) == val.t = "str"

SameValue(a, b) == a.t = b.t /\ a.v = b.v

(***************************************************************************)
(* ast.literal_eval, on the expressions made of list and set displays,     *)
(* the empty dict display, commas, string literals, decimal integers,      *)
(* names and subscripts.  Outside string literals the model reads only     *)
(* brackets, braces, commas, quotes, blanks, digits, letters and the       *)
(* underscore; a string literal holds no backslash and has no prefix       *)
(* letter, and a name is no Python keyword.  Parsing comes first (any      *)
(* syntax error wins), then evaluation left to right, depth first.         *)
(***************************************************************************)

Quotes == {"\"", "'"}
Digits == Range(Chars("0123456789"))
NameStart == Range(Chars("abcdefghijklmnopqrstuvwxyzABCDEFGHIJKLMNOPQRSTUVWXYZ_"))
NameChars == NameStart \cup Digits

DigitValue(c) == FindFrom(Chars("0123456789"), <<c>>, 1) - 1

RECURSIVE DecimalValue(_)
DecimalValue(ds) ==
  IF ds = <<>> THEN 0
  ELSE 10 * DecimalValue(SubSeq(ds, 1, Len(ds) - 1)) + DigitValue(ds[Len(ds)])

\* The first index at or after i that holds no blank (Len(s) + 1 if none).
SkipBlanks(s, i) ==
  LET non == {k \in i..Len(s) : s[k] \notin {" ", "\t"}}
  IN  IF non = {} THEN Len(s) + 1 ELSE Min(non)

\* The end of the run of characters of set cs that starts at index i.
RunEnd(s, i, cs) ==
  LET stop == {k \in i..Len(s) : s[k] \notin cs}
  IN  IF stop = {} THEN Len(s) ELSE Min(stop) - 1

\* hash(val) succeeds
RECURSIVE Hashable(_)
Hashable(val) ==
  \/ val.t \in {"str", "int", "bool", "none"}
  \/ val.t = "tuple" /\ \A k \in 1..Len(val.v) : Hashable(val.v[k])

\* list(map(_convert, elts)): the first exception raised, else the list.
ListResult(items) ==
  LET bad == {k \in 1..Len(items) : IsRaise(items[k])}
  IN  IF bad = {} THEN PyList(items) ELSE items[Min(bad)]

TupleResult(items) ==
  LET bad == {k \in 1..Len(items) : IsRaise(items[k])}
  IN  IF bad = {} THEN PyTuple(items) ELSE items[Min(bad)]

\* set(map(_convert, elts)): each element is converted, then hashed, in turn.
SetResult(items) ==
  LET bad == {k \in 1..Len(items) : IsRaise(items[k]) \/ ~Hashable(items[k])}
      first == {k \in 1..Len(items) :
                  \A j \in 1..(k - 1) : ~SameValue(items[j], items[k])}
  IN  IF bad # {}
      THEN IF IsRaise(items[Min(bad)]) THEN items[Min(bad)] ELSE Raise("TypeError")
      ELSE PySet([n \in 1..Cardinality(first) |->
                    items[CHOOSE k \in first :
                            Cardinality({j \in first : j <= k}) = n]])

NameResult(name) ==
  IF name = Chars("True") THEN PyBool(TRUE)
  ELSE IF name = Chars("False") THEN PyBool(FALSE)
  ELSE IF name = Chars("None") THEN PyNone
  ELSE Raise("ValueError")

\* A parse that failed: a SyntaxError.
NoParse == [syn |-> FALSE, res |-> PyNone, items |-> <<>>, commas |-> 0, pos |-> 0]

Parsed(res, pos) ==
  [syn |-> TRUE, res |-> res, items |-> <<>>, commas |-> 0, pos |-> pos]

ParsedItems(items, commas, pos) ==
  [syn |-> TRUE, res |-> PyNone, items |-> items, commas |-> commas, pos |-> pos]

\* The character a backslash escape stands for (of the characters the model
\* uses); <<>> if the backslash and the character are both kept.
Escaped(c) ==
  IF c = "n" THEN <<"\n">>
  ELSE IF c = "t" THEN <<"\t">>
  ELSE IF c = "r" THEN <<"\r">>
  ELSE IF c = "f" THEN <<"\f">>
  ELSE IF c \in {"\\", "'", "\""} THEN <<c>>
  ELSE <<>>

RECURSIVE Unescape(_)
\* The text of a string literal: its body with the escapes replaced.
Unescape(body) ==
  IF body = <<>> THEN <<>>
  ELSE IF Head(body) = "\\" /\ Len(body) >= 2
  THEN (IF Escaped(body[2]) = <<>> THEN <<body[1], body[2]>>
        ELSE Escaped(body[2]))
         \o Unescape(SubSeq(body, 3, Len(body)))
  ELSE <<Head(body)>> \o Unescape(Tail(body))

\* The index at or after from of the closing quotes: the first that no
\* backslash escapes, that is, with an even number of backslashes right
\* before it; 0 if there is none.
StringEnd(s, closing, from) ==
  LET backslashes(k) ==
        LET other == {j \in from..(k - 1) : s[j] # "\\"}
        IN  IF other = {} THEN k - from
            ELSE k - 1 - (CHOOSE j \in other : \A e \in other : e <= j)
      at == {k \in from..Len(s) :
               MatchAt(s, k, closing) /\ backslashes(k) % 2 = 0}
  IN  IF at = {} THEN 0 ELSE Min(at)

\* The string literal with text body, followed by the literals of more.
JoinedStrings(body, more) ==
  IF more.syn THEN Parsed(PyStr(Unescape(body) \o more.res.v), more.pos)
  ELSE NoParse

RECURSIVE ParseStrings(_, _)

\* The literal opened at s[i] by n quotes and closed at index close (0: never
\* closed), and the literals that follow it.
ClosedString(s, i, n, close) ==
  IF close = 0 THEN NoParse
  ELSE IF SkipBlanks(s, close + n) <= Len(s) /\ s[SkipBlanks(s, close + n)] \in Quotes
  THEN JoinedStrings(SubSeq(s, i + n, close - 1),
                     ParseStrings(s, SkipBlanks(s, close + n)))
  ELSE Parsed(PyStr(Unescape(SubSeq(s, i + n, close - 1))), close + n)

\* One or more adjacent string literals starting at the quote s[i]; three
\* quotes open a triple-quoted literal.
ParseStrings(s, i) ==
  IF MatchAt(s, i, <<s[i], s[i], s[i]>>)
  THEN ClosedString(s, i, 3, StringEnd(s, <<s[i], s[i], s[i]>>, i + 3))
  ELSE ClosedString(s, i, 1, StringEnd(s, <<s[i]>>, i + 1))

\* A decimal integer whose digits are s[i..j].
Number(s, i, j, n) ==
  IF j < Len(s) /\ s[j + 1] \in NameChars THEN NoParse
  ELSE IF j > i /\ s[i] = "0" /\ n # 0 THEN NoParse
  ELSE Parsed(PyInt(n), j + 1)

\* A decimal integer starting at the digit s[i].
ParseNumber(s, i) ==
  Number(s, i, RunEnd(s, i, Digits),
         DecimalValue(SubSeq(s, i, RunEnd(s, i, Digits))))

\* A name whose characters are s[i..j].
Name(s, i, j) ==
  IF j < Len(s) /\ s[j + 1] \in Quotes THEN NoParse
  ELSE Parsed(NameResult(SubSeq(s, i, j)), j + 1)

\* A name starting at s[i].
ParseName(s, i) == Name(s, i, RunEnd(s, i, NameChars))

\* Whether index j is where a display closed by close ends; close = ""
\* stands for the end of the input.
AtClose(s, j, close) ==
  IF close = "" THEN j > Len(s) ELSE j <= Len(s) /\ s[j] = close

\* The items after the first item e and its comma.
MoreItems(e, rest) ==
  IF rest.syn
  THEN ParsedItems(<<e.res>> \o rest.items, rest.commas + 1, rest.pos)
  ELSE NoParse

\* The list display whose items are inner.
ListDisplay(inner) ==
  IF inner.syn THEN Parsed(ListResult(inner.items), inner.pos) ELSE NoParse

\* The display in braces whose items are inner: the empty dict, or a set.
BraceDisplay(inner) ==
  IF ~inner.syn THEN NoParse
  ELSE IF inner.items = <<>>
  THEN IF inner.commas = 0 THEN Parsed(PyDict(<<>>), inner.pos) ELSE NoParse
  ELSE Parsed(SetResult(inner.items), inner.pos)

RECURSIVE ParseExpr(_, _), ParseItems(_, _, _), ParseTrailers(_, _)

\* What follows the first item e, which ends before the non-blank s[k].
AfterItem(s, e, k, close) ==
  IF ~e.syn THEN NoParse
  ELSE IF AtClose(s, k, close) THEN ParsedItems(<<e.res>>, 0, k + 1)
  ELSE IF k <= Len(s) /\ s[k] = ","
  THEN MoreItems(e, ParseItems(s, k + 1, close))
  ELSE NoParse

\* The items from the first item e on.
FromItem(s, e, close) == AfterItem(s, e, SkipBlanks(s, e.pos), close)

\* The items from the non-blank index j on.
ItemsAt(s, j, close) ==
  IF AtClose(s, j, close) THEN ParsedItems(<<>>, 0, j + 1)
  ELSE IF j > Len(s) THEN NoParse
  ELSE FromItem(s, ParseExpr(s, j), close)

\* expr (',' expr)* [','] up to close.
ParseItems(s, i, close) == ItemsAt(s, SkipBlanks(s, i), close)

\* The subscript whose items are sub: an ast.Subscript node, which
\* literal_eval rejects with ValueError.
Subscript(s, sub) ==
  IF sub.syn /\ sub.items # <<>>
  THEN ParseTrailers(s, Parsed(Raise("ValueError"), sub.pos))
  ELSE NoParse

\* The primary r with the subscripts that follow it from the non-blank s[j].
TrailersAt(s, r, j) ==
  IF j <= Len(s) /\ s[j] = "[" THEN Subscript(s, ParseItems(s, j + 1, "]"))
  ELSE r

\* The primary r with the subscripts that follow it.
ParseTrailers(s, r) ==
  IF r.syn THEN TrailersAt(s, r, SkipBlanks(s, r.pos)) ELSE NoParse

\* A primary starting at the non-blank s[i].
ParseExpr(s, i) ==
  ParseTrailers(s,
    IF s[i] = "[" THEN ListDisplay(ParseItems(s, i + 1, "]"))
    ELSE IF s[i] = "{" THEN BraceDisplay(ParseItems(s, i + 1, "}"))
    ELSE IF s[i] \in Quotes THEN ParseStrings(s, i)
    ELSE IF s[i] \in Digits THEN ParseNumber(s, i)
    ELSE IF s[i] \in NameStart THEN ParseName(s, i)
    ELSE NoParse)

\* The value of the expression list top: a lone expression, else a tuple.
TopResult(top) ==
  IF ~top.syn \/ top.items = <<>> THEN Raise("SyntaxError")
  ELSE IF top.commas = 0 /\ Len(top.items) = 1 THEN top.items[1]
  ELSE TupleResult(top.items)

\* ast.literal_eval(text): the value, or the exception raised.
literal_eval(text) == TopResult(ParseItems(text, 1, ""))

(***************************************************************************)
(* parse_yaml_value                                                        *)
(***************************************************************************)

\* except (SyntaxError, ValueError): return value
caught(value, literal) ==
  IF IsRaise(literal) /\ literal.v[1] \in {"SyntaxError", "ValueError"}
  THEN PyStr(value)
  ELSE literal

\* parse_yaml_value after value = raw_value.strip()
yaml_value(value) ==
  IF value = <<>> THEN PyStr(<<>>)
  ELSE IF StartsWith(value, <<"[">>) /\ EndsWith(value, <<"]">>)
  THEN caught(value, literal_eval(value))
  ELSE IF \/ StartsWith(value, <<"\"">>) /\ EndsWith(value, <<"\"">>)
          \/ StartsWith(value, <<"'">>) /\ EndsWith(value, <<"'">>)
  THEN PyStr(SubSeq(value, 2, Len(value) - 1))
  ELSE PyStr(value)

\* parse_yaml_value(raw_value): the value returned, or the exception that
\* leaves the function (only SyntaxError and ValueError are caught).
parse_yaml_value(raw_value) == yaml_value(Strip(raw_value))

(***************************************************************************)
(* Fence extraction and frontmatter parsing                                *)
(***************************************************************************)

\* The backquote character.  SANY cannot read a backquote inside a string
\* literal, so the model gives the character a name of its own.
Backtick == "<backquote>"

Delimiter == Chars("---")
Fence == <<Backtick, Backtick, Backtick>>
ChatagentMarker == Fence \o Chars("chatagent")
PromptMarker == Fence \o Chars("prompt")

\* The warning messages, as the text the code appends.
ChatagentWarning ==
  Chars("Chatagent block start found without closing ") \o Fence \o Chars(".")
PromptWarning ==
  Chars("Prompt block start found without closing ") \o Fence \o Chars(".")
FrontmatterWarning == Chars("Frontmatter start found without closing '---'.")
UnrecognizedWarning(line) == Chars("Unrecognized frontmatter line: ") \o line
DescriptionWarning == Chars("Description is not a string; using filename instead.")

\* line.strip().startswith(marker): the line opens a fenced block.
opens_block(line, marker) == StartsWith(Strip(line), marker)

\* lines[index].strip() == Fence: the line closes a fenced block.
closes_block(line) == Strip(line) = Fence

\* lines[index].strip() == "---": the line is a frontmatter delimiter.
is_delimiter(line) == Strip(line) = Delimiter

\* What the extractor returns when the block is never closed.
unclosed_block(text, lines, start_index, msg) ==
  [text |-> text, warnings |-> <<msg>>]

\* closed_block, were the two fence lines kept.
closed_block_with_fences(text, lines, start_index, end_index) ==
  [text |-> JoinLines(SubSeq(lines, start_index, end_index)), warnings |-> <<>>]

\* What the extractor returns for a closed block: the interior lines.
closed_block(text, lines, start_index, end_index) ==
  [text |-> JoinLines(SubSeq(lines, start_index + 1, end_index - 1)),
   warnings |-> <<>>]

\* extract_chatagent_block / extract_prompt_block: the working text and the
\* warnings.  The two functions differ in the marker and the message only.
extract_block(text, marker, msg) ==
  LET lines == SplitLines(text)
      starts == {i \in 1..Len(lines) : opens_block(lines[i], marker)}
      start_index == Min(starts)
      ends == {i \in (start_index + 1)..Len(lines) : closes_block(lines[i])}
  IN  IF starts = {} THEN [text |-> text, warnings |-> <<>>]
      ELSE IF ends = {} THEN unclosed_block(text, lines, start_index, msg)
      ELSE closed_block(text, lines, start_index, Min(ends))

extract_chatagent_block(text) ==
  extract_block(text, ChatagentMarker, ChatagentWarning)

extract_prompt_block(text) ==
  extract_block(text, PromptMarker, PromptWarning)

\* dict.get(key): None when the key is absent.
Get(metadata, key) ==
  IF key \in DOMAIN metadata THEN metadata[key] ELSE PyNone

\* metadata[key] = val
Put(metadata, key, val) ==
  [k \in DOMAIN metadata \cup {key} |-> IF k = key THEN val ELSE metadata[k]]

EmptyDict == [k \in {} |-> PyNone]

\* What parse_frontmatter returns: raised is "" or the exception that left it.
Frontmatter(raised, metadata, body, warnings) ==
  [raised |-> raised, metadata |-> metadata, body |-> body,
   warnings |-> warnings]

\* no_frontmatter, were the body rebuilt from the lines instead of returned
\* as it came.
no_frontmatter_rejoined(text, lines) ==
  Frontmatter("", EmptyDict, JoinLines(lines), <<>>)

\* return {}, text, warnings: the text has no frontmatter block.
no_frontmatter(text, lines) == Frontmatter("", EmptyDict, text, <<>>)

\* unclosed_frontmatter, were the opening delimiter taken off the body.
unclosed_frontmatter_without_opener(text, lines) ==
  Frontmatter("", EmptyDict, JoinLines(Tail(lines)), <<FrontmatterWarning>>)

\* The block is opened and never closed.
unclosed_frontmatter(text, lines) ==
  Frontmatter("", EmptyDict, text, <<FrontmatterWarning>>)

\* set_item, were a key that is in the metadata left as it is.
set_item_once(acc, key, val) ==
  IF IsRaise(val) THEN [acc EXCEPT !.raised = val.v[1]]
  ELSE IF Strip(key) \in DOMAIN acc.metadata THEN acc
  ELSE [acc EXCEPT !.metadata = Put(@, Strip(key), val)]

\* metadata[key.strip()] = parse_yaml_value(raw_value), val being what
\* parse_yaml_value returned or raised.
set_item(acc, key, val) ==
  IF IsRaise(val) THEN [acc EXCEPT !.raised = val.v[1]]
  ELSE [acc EXCEPT !.metadata = Put(@, Strip(key), val)]

\* frontmatter_line, were a comment without a colon warned of as well.
frontmatter_line_warning_of_comments(acc, line) ==
  LET colon == FindFrom(line, <<":">>, 1)
  IN  IF Strip(line) = <<>> THEN acc
      ELSE IF colon = 0
      THEN [acc EXCEPT !.warnings = Append(@, UnrecognizedWarning(line))]
      ELSE IF StartsWith(Strip(line), <<"#">>) THEN acc
      ELSE set_item(acc, SubSeq(line, 1, colon - 1),
                    parse_yaml_value(SubSeq(line, colon + 1, Len(line))))

\* One pass of the loop over frontmatter_lines, from the state acc.
frontmatter_line(acc, line) ==
  LET stripped == Strip(line)
      colon == FindFrom(line, <<":">>, 1)
  IN  IF stripped = <<>> \/ StartsWith(stripped, <<"#">>) THEN acc
      ELSE IF colon = 0
      THEN [acc EXCEPT !.warnings = Append(@, UnrecognizedWarning(line))]
      ELSE set_item(acc, SubSeq(line, 1, colon - 1),
                    parse_yaml_value(SubSeq(line, colon + 1, Len(line))))

RECURSIVE frontmatter_lines(_, _)
\* The loop over frontmatter_lines; an exception ends it.
frontmatter_lines(acc, lines) ==
  IF lines = <<>> \/ acc.raised # "" THEN acc
  ELSE frontmatter_lines(frontmatter_line(acc, Head(lines)), Tail(lines))

\* parse_frontmatter, were the block closed by the last delimiter line.
parse_frontmatter_to_last_delimiter(text) ==
  LET lines == SplitLines(text)
      ends == {i \in 2..Len(lines) : is_delimiter(lines[i])}
      end_index == CHOOSE i \in ends : \A j \in ends : j <= i
      body_text == JoinLines(SubSeq(lines, end_index + 1, Len(lines)))
  IN  IF lines = <<>> \/ ~is_delimiter(lines[1]) THEN no_frontmatter(text, lines)
      ELSE IF ends = {} THEN unclosed_frontmatter(text, lines)
      ELSE frontmatter_lines(Frontmatter("", EmptyDict, body_text, <<>>),
                             SubSeq(lines, 2, end_index - 1))

\* parse_frontmatter(text): metadata, body and warnings.
parse_frontmatter(text) ==
  LET lines == SplitLines(text)
      ends == {i \in 2..Len(lines) : is_delimiter(lines[i])}
      end_index == Min(ends)
      body_text == JoinLines(SubSeq(lines, end_index + 1, Len(lines)))
  IN  IF lines = <<>> \/ ~is_delimiter(lines[1]) THEN no_frontmatter(text, lines)
      ELSE IF ends = {} THEN unclosed_frontmatter(text, lines)
      ELSE frontmatter_lines(Frontmatter("", EmptyDict, body_text, <<>>),
                             SubSeq(lines, 2, end_index - 1))

(***************************************************************************)
(* Normalization and the document emitters                                 *)
(***************************************************************************)

\* yaml_quote(value)
yaml_quote(value) ==
  LET escaped == Replace(Replace(value, <<"\\">>, <<"\\", "\\">>),
                         <<"\"">>, <<"\\", "\"">>)
  IN  <<"\"">> \o escaped \o <<"\"">>

\* normalize_text, were the last replacement (VSCode) left out.
normalize_text_without_vscode(text) ==
  Replace(Replace(Replace(text,
    Chars("GitHub Copilot"), Chars("Cursor AI")),
    Chars("Visual Studio Code"), Chars("Cursor")),
    Chars("VS Code"), Chars("Cursor"))

\* str.replace(old, new, 1): the first occurrence only.
ReplaceFirst(s, old, new) ==
  LET i == FindFrom(s, old, 1)
  IN  IF i = 0 THEN s
      ELSE SubSeq(s, 1, i - 1) \o new \o SubSeq(s, i + Len(old), Len(s))

\* normalize_text, were each name replaced where it first occurs only.
normalize_text_first_only(text) ==
  ReplaceFirst(ReplaceFirst(ReplaceFirst(ReplaceFirst(text,
    Chars("GitHub Copilot"), Chars("Cursor AI")),
    Chars("Visual Studio Code"), Chars("Cursor")),
    Chars("VS Code"), Chars("Cursor")),
    Chars("VSCode"), Chars("Cursor"))

\* normalize_text(text): the four product-name replacements, in order.  The
\* two rule converters apply the same chain inline in build_rule_content.
normalize_text(text) ==
  Replace(Replace(Replace(Replace(text,
    Chars("GitHub Copilot"), Chars("Cursor AI")),
    Chars("Visual Studio Code"), Chars("Cursor")),
    Chars("VS Code"), Chars("Cursor")),
    Chars("VSCode"), Chars("Cursor"))

\* The body as the rule emitters append it: one leading newline stripped.
rule_body(body) ==
  LET normalized_body == normalize_text(body)
  IN  IF StartsWith(normalized_body, <<"\n">>) THEN Tail(normalized_body)
      ELSE normalized_body

\* The text a rule emitter returns for its frontmatter lines and body.
rule_text(lines, body_text) ==
  IF body_text # <<>>
  THEN JoinLines(lines) \o <<"\n">> \o body_text \o <<"\n">>
  ELSE JoinLines(lines) \o <<"\n">>

\* build_agent_rule_content, were the rule applied always.
build_agent_rule_content_always(description, body) ==
  rule_text(<<Delimiter,
              Chars("description: ") \o yaml_quote(normalize_text(description)),
              Chars("globs: []"),
              Chars("alwaysApply: true"),
              Delimiter>>,
            rule_body(body))

\* build_rule_content(description, body) of agents2rules.py
build_agent_rule_content(description, body) ==
  rule_text(<<Delimiter,
              Chars("description: ") \o yaml_quote(normalize_text(description)),
              Chars("globs: []"),
              Chars("alwaysApply: false"),
              Delimiter>>,
            rule_body(body))

\* The globs block of instructions2rules.py's build_rule_content.
globs_lines(globs) ==
  IF globs # <<>>
  THEN <<Chars("globs:")>>
         \o [i \in 1..Len(globs) |-> Chars("  - ") \o yaml_quote(globs[i])]
  ELSE <<Chars("globs: []")>>

\* build_rule_content(description, globs, always_apply, body) of
\* instructions2rules.py
build_rule_content(description, globs, always_apply, body) ==
  rule_text(<<Delimiter,
              Chars("description: ") \o yaml_quote(normalize_text(description))>>
              \o globs_lines(globs)
              \o <<Chars("alwaysApply: ")
                     \o (IF always_apply THEN Chars("true") ELSE Chars("false")),
                   Delimiter>>,
            rule_body(body))

LowerCase == Chars("abcdefghijklmnopqrstuvwxyz")
UpperCase == Chars("ABCDEFGHIJKLMNOPQRSTUVWXYZ")
IsCased(c) == c \in Range(LowerCase) \cup Range(UpperCase)
ToUpper(c) ==
  IF c \in Range(LowerCase) THEN UpperCase[FindFrom(LowerCase, <<c>>, 1)] ELSE c
ToLower(c) ==
  IF c \in Range(UpperCase) THEN LowerCase[FindFrom(UpperCase, <<c>>, 1)] ELSE c

\* str.title(): a cased character is upper-cased after an uncased one (or at
\* the start) and lower-cased after a cased one.
Title(s) ==
  [i \in 1..Len(s) |->
     IF i > 1 /\ IsCased(s[i - 1]) THEN ToLower(s[i]) ELSE ToUpper(s[i])]

InstructionLine == Chars("Use any text after the command as additional context.")

\* build_command_content, were the end of the text left as it is.
build_command_content_untrimmed(description, body, filename_stem) ==
  LET normalized_description ==
        IF IsStr(description) /\ description.v # <<>>
        THEN normalize_text(description.v) ELSE <<>>
      title == Title(Replace(Replace(filename_stem, <<"-">>, <<" ">>),
                             <<"_">>, <<" ">>))
  IN  JoinLines(<<Chars("# ") \o title>>
                  \o (IF normalized_description # <<>>
                      THEN <<normalized_description>> ELSE <<>>)
                  \o <<<<>>, InstructionLine, <<>>>>
                  \o (IF normalize_text(body) # <<>>
                      THEN <<normalize_text(body)>> ELSE <<>>))
    \o <<"\n">>

\* build_command_content(description, body, filename_stem); description is a
\* str value or None.
build_command_content(description, body, filename_stem) ==
  LET normalized_body == normalize_text(body)
      normalized_description ==
        IF IsStr(description) /\ description.v # <<>>
        THEN normalize_text(description.v) ELSE <<>>
      title == Title(Replace(Replace(filename_stem, <<"-">>, <<" ">>),
                             <<"_">>, <<" ">>))
      parts == <<Chars("# ") \o title>>
                 \o (IF normalized_description # <<>>
                     THEN <<normalized_description>> ELSE <<>>)
                 \o <<<<>>, InstructionLine, <<>>>>
                 \o (IF normalized_body # <<>> THEN <<normalized_body>> ELSE <<>>)
  IN  RStrip(JoinLines(parts)) \o <<"\n">>

(***************************************************************************)
(* str() and repr() of the values parse_yaml_value returns                 *)
(***************************************************************************)

RECURSIVE DecimalChars(_)
DecimalChars(n) ==
  IF n < 10 THEN <<Chars("0123456789")[n + 1]>>
  ELSE DecimalChars(n \div 10) \o <<Chars("0123456789")[(n % 10) + 1]>>

RECURSIVE JoinWith(_, _)
\* sep.join(parts)
JoinWith(parts, sep) ==
  IF parts = <<>> THEN <<>>
  ELSE IF Len(parts) = 1 THEN parts[1]
  ELSE parts[1] \o sep \o JoinWith(Tail(parts), sep)

\* repr() of a str: single quotes, unless the text holds a single quote and
\* no double quote.
StrRepr(cs) ==
  LET q == IF "'" \in Range(cs) /\ "\"" \notin Range(cs) THEN "\"" ELSE "'"
      esc(c) == IF c = "\\" THEN <<"\\", "\\">>
                ELSE IF c = q THEN <<"\\", q>>
                ELSE IF c = "\n" THEN <<"\\", "n">>
                ELSE IF c = "\r" THEN <<"\\", "r">>
                ELSE IF c = "\t" THEN <<"\\", "t">>
                ELSE <<c>>
  IN  <<q>> \o JoinWith([i \in 1..Len(cs) |-> esc(cs[i])], <<>>) \o <<q>>

RECURSIVE py_repr(_)
\* repr(val).  A set is shown in the order of its display: the model is
\* exact for sets of at most one element only.
py_repr(val) ==
  LET inner == JoinWith([i \in 1..Len(val.v) |-> py_repr(val.v[i])], Chars(", "))
  IN  IF val.t = "str" THEN StrRepr(val.v)
      ELSE IF val.t = "int" THEN DecimalChars(val.v[1])
      ELSE IF val.t = "bool" THEN (IF val.v[1] THEN Chars("True") ELSE Chars("False"))
      ELSE IF val.t = "none" THEN Chars("None")
      ELSE IF val.t = "list" THEN <<"[">> \o inner \o <<"]">>
      ELSE IF val.t = "tuple"
      THEN <<"(">> \o inner \o (IF Len(val.v) = 1 THEN <<",">> ELSE <<>>) \o <<")">>
      ELSE <<"{">> \o inner \o <<"}">>

\* str(val)
py_str(val) == IF IsStr(val) THEN val.v ELSE py_repr(val)

\* [x for x in items if pred]: the subsequence of the non-empty items.
RECURSIVE NonEmpty(_)
NonEmpty(items) ==
  IF items = <<>> THEN <<>>
  ELSE IF Head(items) = <<>> THEN NonEmpty(Tail(items))
  ELSE <<Head(items)>> \o NonEmpty(Tail(items))

\* normalize_globs, were the empty items kept.
normalize_globs_keeping_empty(apply_to) ==
  LET parts == SplitOn(py_str(apply_to), ",")
  IN  IF apply_to.t = "none" THEN <<>>
      ELSE IF apply_to.t = "list"
      THEN [i \in 1..Len(apply_to.v) |-> Strip(py_str(apply_to.v[i]))]
      ELSE [i \in 1..Len(parts) |-> Strip(parts[i])]

\* normalize_globs(apply_to)
normalize_globs(apply_to) ==
  LET parts == SplitOn(py_str(apply_to), ",")
      items == IF apply_to.t = "list"
               THEN [i \in 1..Len(apply_to.v) |-> Strip(py_str(apply_to.v[i]))]
               ELSE [i \in 1..Len(parts) |-> Strip(parts[i])]
  IN  IF apply_to.t = "none" THEN <<>> ELSE NonEmpty(items)

(***************************************************************************)
(* convert_file, from the text read to the text written                    *)
(***************************************************************************)

Dialects == {"agent", "instruction", "prompt"}

\* The file name suffix each converter reads and the one it writes.
SourceSuffix(dialect) ==
  IF dialect = "agent" THEN Chars(".agent.md")
  ELSE IF dialect = "instruction" THEN Chars(".instructions.md")
  ELSE Chars(".prompt.md")

DestinationSuffix(dialect) ==
  IF dialect = "prompt" THEN Chars(".md") ELSE Chars(".mdc")

\* The text the stem loses: the source suffix without its ".md".
StemSuffix(dialect) ==
  IF dialect = "agent" THEN Chars(".agent")
  ELSE IF dialect = "instruction" THEN Chars(".instructions")
  ELSE Chars(".prompt")

\* Path.stem: the name without its last suffix.
PathStem(name) ==
  LET dots == {i \in 1..Len(name) : name[i] = "."}
      i == CHOOSE d \in dots : \A e \in dots : e <= d
  IN  IF dots # {} /\ 1 < i /\ i < Len(name) THEN SubSeq(name, 1, i - 1)
      ELSE name

\* source_path.stem.replace(".agent", ""), and likewise for the others.
filename_stem(dialect, name) == Replace(PathStem(name), StemSuffix(dialect), <<>>)

\* source_path.name.replace(".agent.md", ".mdc"), and likewise.
output_name(dialect, name) ==
  Replace(name, SourceSuffix(dialect), DestinationSuffix(dialect))

\* not isinstance(description, str) or not description.strip()
unusable(description) == ~IsStr(description) \/ Strip(description.v) = <<>>

\* The fence extraction of each converter (instructions2rules.py has none).
extract(dialect, text) ==
  IF dialect = "agent" THEN extract_chatagent_block(text)
  ELSE IF dialect = "prompt" THEN extract_prompt_block(text)
  ELSE [text |-> text, warnings |-> <<>>]

\* The description the agent converter gives the rule.
agent_description(metadata, name) ==
  LET description == Get(metadata, Chars("description"))
      fallback == Get(metadata, Chars("name"))
  IN  IF ~unusable(description) THEN description.v
      ELSE IF ~unusable(fallback) THEN fallback.v
      ELSE filename_stem("agent", name)

\* The description the instruction converter gives the rule.
instruction_description(metadata, name) ==
  LET description == Get(metadata, Chars("description"))
  IN  IF ~unusable(description) THEN description.v
      ELSE filename_stem("instruction", name)

\* always_apply, were a glob that merely holds a star taken for a wildcard.
always_apply_for_any_star(globs) ==
  \E i \in 1..Len(globs) : "*" \in Range(globs[i])

\* any(glob in {"*", "**"} for glob in globs)
always_apply(globs) ==
  \E i \in 1..Len(globs) : globs[i] \in {Chars("*"), Chars("**")}

\* The description the prompt converter hands to build_command_content, and
\* the warning it adds for a description that is no string.
prompt_description(metadata) ==
  LET description == Get(metadata, Chars("description"))
  IN  IF description.t \notin {"none", "str"} THEN PyNone ELSE description

\* prompt_warnings, were the description that is no string dropped in
\* silence.
prompt_warnings_silent(metadata) == <<>>

prompt_warnings(metadata) ==
  LET description == Get(metadata, Chars("description"))
  IN  IF description.t \notin {"none", "str"} THEN <<DescriptionWarning>> ELSE <<>>

\* The rule the instruction converter builds once globs is computed.
instruction_rule(description, globs, body) ==
  build_rule_content(description, globs, always_apply(globs), body)

\* The content each converter builds from the parsed document.
build_content(dialect, name, metadata, body) ==
  IF dialect = "agent"
  THEN build_agent_rule_content(agent_description(metadata, name), body)
  ELSE IF dialect = "instruction"
  THEN instruction_rule(instruction_description(metadata, name),
                        normalize_globs(Get(metadata, Chars("applyTo"))), body)
  ELSE build_command_content(prompt_description(metadata), body,
                             filename_stem("prompt", name))

\* convert_parsed, were the warning of the prompt converter added by every
\* converter.
convert_parsed_warning_always(dialect, name, block, parsed) ==
  IF parsed.raised # ""
  THEN [raised |-> parsed.raised,
        warnings |-> block.warnings \o parsed.warnings, content |-> <<>>,
        working |-> block.text, metadata |-> EmptyDict, body |-> <<>>]
  ELSE [raised |-> "",
        warnings |-> block.warnings \o parsed.warnings
                       \o prompt_warnings(parsed.metadata),
        content |-> build_content(dialect, name, parsed.metadata, parsed.body),
        working |-> block.text, metadata |-> parsed.metadata,
        body |-> parsed.body]

\* convert_file from the parsed frontmatter on: the exception that left
\* parse_frontmatter (raised, "" if none), the warnings collected and the
\* content to write.
convert_parsed(dialect, name, block, parsed) ==
  IF parsed.raised # ""
  THEN [raised |-> parsed.raised,
        warnings |-> block.warnings \o parsed.warnings, content |-> <<>>,
        working |-> block.text, metadata |-> EmptyDict, body |-> <<>>]
  ELSE [raised |-> "",
        warnings |-> block.warnings \o parsed.warnings
                       \o (IF dialect = "prompt"
                           THEN prompt_warnings(parsed.metadata) ELSE <<>>),
        content |-> build_content(dialect, name, parsed.metadata, parsed.body),
        working |-> block.text, metadata |-> parsed.metadata,
        body |-> parsed.body]

\* convert_file from the extracted block on.
convert_block(dialect, name, block) ==
  convert_parsed(dialect, name, block, parse_frontmatter(block.text))

\* convert_file between the read and the write.
convert_text(dialect, name, text) ==
  convert_block(dialect, name, extract(dialect, text))

(***************************************************************************)
(* The batch driver: main() of each converter                              *)
(***************************************************************************)

VARIABLES
  dialect,        \* the converter that runs: agent, instruction or prompt
  argument,       \* the optional positional argument of the command line
  files,          \* the source files, by name
  unwritable,     \* the destination names whose write raises OSError
  directory,      \* whether the destination directory exists
  written,        \* the destination files, by name
  pc,             \* where main() is
  sources,        \* the list main() loops over
  index,          \* the position of the loop in sources
  converted,      \* main()'s counters
  failed,
  warning_count,
  results,        \* the ConversionResult convert_file returned for each file
  stdout,         \* the lines printed
  status,         \* the exit status of the process, -1 while it runs
  raised,         \* the exception that left main(), "" if none
  call,           \* the function applied to arg on its own, "" if none yet
  arg,            \* an input of a function of the converters
  ret             \* what the function returned for arg

vars == <<dialect, argument, files, unwritable, directory, written, pc, sources,
          index, converted, failed, warning_count, results, stdout, status,
          raised, call, arg, ret>>

\* The files of one run: at most MaxFiles candidates in the source directory.
MaxFiles == 3

\* The order of str comparison, on the characters the model uses.
CharOrder ==
  <<"\t", "\n", "\r">>
    \o Chars(" !\"#$%&'()*+,-./0123456789:;<=>?@ABCDEFGHIJKLMNOPQRSTUVWXYZ[\\]^_")
    \o <<Backtick>> \o Chars("abcdefghijklmnopqrstuvwxyz{|}~")

Ord(c) == FindFrom(CharOrder, <<c>>, 1)

\* a < b for two strings
RECURSIVE StrLess(_, _)
StrLess(a, b) ==
  IF b = <<>> THEN FALSE
  ELSE IF a = <<>> THEN TRUE
  ELSE IF Head(a) # Head(b) THEN Ord(Head(a)) < Ord(Head(b))
  ELSE StrLess(Tail(a), Tail(b))

RECURSIVE Sorted(_)
\* sorted(S)
Sorted(S) ==
  IF S = {} THEN <<>>
  ELSE LET least == CHOOSE a \in S : \A b \in S \ {a} : StrLess(a, b)
       IN  <<least>> \o Sorted(S \ {least})

\* The names of the candidate files: a.agent.md, b.agent.md, ...
CandidateName(d, k) == <<LowerCase[k]>> \o SourceSuffix(d)
CandidateNames(d) == {CandidateName(d, k) : k \in 1..MaxFiles}

\* A file of the source directory that is no candidate, and a name no file has.
OtherName == Chars("notes.md")
MissingName(d) == Chars("gone") \o SourceSuffix(d)

\* A file: absent, a file whose read raises OSError, a file whose bytes are
\* no UTF-8 text, or a text file.
Absent == [kind |-> "absent", text |-> <<>>]
Unreadable == [kind |-> "unreadable", text |-> <<>>]
Undecodable == [kind |-> "undecodable", text |-> <<>>]
TextFile(text) == [kind |-> "text", text |-> text]

\* The opening fence line of the converter (the instruction converter knows no
\* fence: the line is body text to it).
Marker(d) == IF d = "prompt" THEN PromptMarker ELSE ChatagentMarker

\* The texts of the files of a run: a plain body, a document with frontmatter
\* and a fence that is never closed, and the same with a frontmatter value
\* whose literal evaluation raises TypeError.
PlainText == Chars("VS Code\n")
UnclosedText(d) == Chars("---\nname: n\n? \n---\n") \o Marker(d) \o Chars("\nhi")
UnhashableText(d) == Chars("---\nk: [{[]}]\n---\n") \o Marker(d) \o Chars("\nhi")

FileTexts(d) == {PlainText, UnclosedText(d), UnhashableText(d)}

FileStates(d) ==
  {Absent, Unreadable, Undecodable} \cup {TextFile(t) : t \in FileTexts(d)}

\* The command lines of a run.
NoArgument == [given |-> FALSE, name |-> <<>>]
Argument(name) == [given |-> TRUE, name |-> name]

Arguments(d) ==
  {NoArgument, Argument(<<>>), Argument(CandidateName(d, 1)),
   Argument(OtherName), Argument(MissingName(d))}

\* if args.agent_file: the argument is given and is not the empty string.
single_file(a) == a.given /\ a.name # <<>>

\* source_path.is_file()
is_file(fs, name) == name \in DOMAIN fs /\ fs[name].kind # "absent"

\* collect_agent_files(source_dir), and likewise: the sorted candidates.
collect_files(d, fs) ==
  Sorted({n \in DOMAIN fs : is_file(fs, n) /\ EndsWith(n, SourceSuffix(d))})

\* source_path.read_text(encoding="utf-8"): newlines are translated to "\n".
read_text(text) ==
  Replace(Replace(text, <<"\r", "\n">>, <<"\n">>), <<"\r">>, <<"\n">>)

\* A ConversionResult; destination is <<>> for None and error "" for None.
ConversionResult(source, destination, success, warnings, error) ==
  [source |-> source, destination |-> destination, success |-> success,
   warnings |-> warnings, error |-> error]

\* convert_file from the write on: c is what the conversion of the text gave.
write_file(locked, source, destination, c) ==
  IF c.raised # ""
  THEN [raised |-> c.raised, wrote |-> FALSE, content |-> <<>>,
        result |-> ConversionResult(source, <<>>, FALSE, <<>>, "")]
  ELSE IF destination \in locked
  THEN [raised |-> "", wrote |-> FALSE, content |-> <<>>,
        result |-> ConversionResult(source, <<destination>>, FALSE,
                                    c.warnings, "OSError")]
  ELSE [raised |-> "", wrote |-> TRUE, content |-> c.content,
        result |-> ConversionResult(source, <<destination>>, TRUE,
                                    c.warnings, "")]

\* convert_file(source_path, destination_dir): the exception that leaves it
\* (raised), else the result returned, and the content written (wrote).
convert_file(d, fs, locked, source) ==
  IF fs[source].kind = "unreadable"
  THEN [raised |-> "", wrote |-> FALSE, content |-> <<>>,
        result |-> ConversionResult(source, <<>>, FALSE, <<>>, "OSError")]
  ELSE IF fs[source].kind = "undecodable"
  THEN [raised |-> "UnicodeDecodeError", wrote |-> FALSE, content |-> <<>>,
        result |-> ConversionResult(source, <<>>, FALSE, <<>>, "")]
  ELSE write_file(locked, source, output_name(d, source),
                  convert_text(d, source, read_text(fs[source].text)))

\* A printed line: what it reports, the file it is about and the rest.
Line(kind, source, detail) == [kind |-> kind, source |-> source, detail |-> detail]

\* The lines main() prints for one result: the status line, then one line
\* per warning.
result_lines(result) ==
  <<IF result.success
    THEN Line("Converted", result.source, result.destination[1])
    ELSE Line("Failed", result.source, result.error)>>
    \o [i \in 1..Len(result.warnings) |->
          Line("Warning", result.source, result.warnings[i])]

\* tally, were the warnings of a failed result left out.
tally_without_failed_warnings(c, result) ==
  <<IF result.success THEN c[1] + 1 ELSE c[1],
    IF result.success THEN c[2] ELSE c[2] + 1,
    IF result.success THEN c[3] + Len(result.warnings) ELSE c[3]>>

\* The counters after one result: c is <<converted, failed, warning_count>>.
tally(c, result) ==
  <<IF result.success THEN c[1] + 1 ELSE c[1],
    IF result.success THEN c[2] ELSE c[2] + 1,
    c[3] + Len(result.warnings)>>

\* exit_status, were a warning enough to fail the run.
exit_status_with_warnings(n_failed, n_warnings) ==
  IF n_failed # 0 \/ n_warnings # 0 THEN 1 ELSE 0

\* return 1 if failed else 0
exit_status(n_failed, n_warnings) == IF n_failed # 0 THEN 1 ELSE 0

\* The exit status of a Python process that an exception leaves.
TracebackStatus == 1

\* The list main() would loop over.
source_list ==
  IF single_file(argument) THEN <<argument.name>>
  ELSE collect_files(dialect, files)

Idle == call = "" /\ arg = <<>> /\ ret = <<>>

Init ==
  /\ dialect \in Dialects
  /\ argument \in Arguments(dialect)
  /\ files \in [CandidateNames(dialect) \cup {OtherName} -> FileStates(dialect)]
  /\ files[OtherName] = TextFile(PlainText)
  /\ single_file(argument) =>
       \A k \in 2..MaxFiles : files[CandidateName(dialect, k)] = Absent
  /\ unwritable \in {{}, {output_name(dialect, CandidateName(dialect, 1))}}
  /\ directory = FALSE
  /\ written = EmptyDict
  /\ pc = "start"
  /\ sources = <<>>
  /\ index = 0
  /\ converted = 0
  /\ failed = 0
  /\ warning_count = 0
  /\ results = <<>>
  /\ stdout = <<>>
  /\ status = -1
  /\ raised = ""
  /\ Idle

\* main() up to the loop.  The destination directory is made first.
MainFileNotFound ==
  /\ pc = "start"
  /\ single_file(argument)
  /\ ~is_file(files, argument.name)
  /\ directory' = TRUE
  /\ stdout' = <<Line("Error: file not found", argument.name, <<>>)>>
  /\ status' = 1
  /\ pc' = "exit"
  /\ UNCHANGED <<dialect, argument, files, unwritable, written, sources, index,
                 converted, failed, warning_count, results, raised, call, arg, ret>>

MainWrongSuffix ==
  /\ pc = "start"
  /\ single_file(argument)
  /\ is_file(files, argument.name)
  /\ ~EndsWith(argument.name, SourceSuffix(dialect))
  /\ directory' = TRUE
  /\ stdout' = <<Line("Error: wrong suffix", argument.name, <<>>)>>
  /\ status' = 1
  /\ pc' = "exit"
  /\ UNCHANGED <<dialect, argument, files, unwritable, written, sources, index,
                 converted, failed, warning_count, results, raised, call, arg, ret>>

MainNoFiles ==
  /\ pc = "start"
  /\ ~single_file(argument)
  /\ source_list = <<>>
  /\ directory' = TRUE
  /\ stdout' = Append(stdout, Line("No files found", <<>>, <<>>))
  /\ status' = 0
  /\ pc' = "exit"
  /\ UNCHANGED <<dialect, argument, files, unwritable, written, sources, index,
                 converted, failed, warning_count, results, raised, call, arg, ret>>

MainLoop ==
  /\ pc = "start"
  /\ single_file(argument) =>
       /\ is_file(files, argument.name)
       /\ EndsWith(argument.name, SourceSuffix(dialect))
  /\ source_list # <<>>
  /\ directory' = TRUE
  /\ sources' = source_list
  /\ index' = 1
  /\ converted' = 0
  /\ failed' = 0
  /\ warning_count' = 0
  /\ pc' = "loop"
  /\ UNCHANGED <<dialect, argument, files, unwritable, written, results, stdout,
                 status, raised, call, arg, ret>>

\* One pass of the loop whose convert_file returns a result.
Convert ==
  /\ pc = "loop"
  /\ index <= Len(sources)
  /\ \E r \in {convert_file(dialect, files, unwritable, sources[index])} :
       /\ r.raised = ""
       /\ written' = IF r.wrote
                     THEN Put(written, r.result.destination[1], r.content)
                     ELSE written
       /\ results' = Append(results, r.result)
       /\ \E c \in {tally(<<converted, failed, warning_count>>, r.result)} :
            /\ converted' = c[1]
            /\ failed' = c[2]
            /\ warning_count' = c[3]
       /\ stdout' = stdout \o result_lines(r.result)
  /\ index' = index + 1
  /\ UNCHANGED <<dialect, argument, files, unwritable, directory, pc, sources,
                 status, raised, call, arg, ret>>

\* One pass of the loop whose convert_file raises: nothing catches the
\* exception, it leaves the loop and main(), and the process ends.
ConvertRaises ==
  /\ pc = "loop"
  /\ index <= Len(sources)
  /\ \E r \in {convert_file(dialect, files, unwritable, sources[index])} :
       /\ r.raised # ""
       /\ raised' = r.raised
  /\ status' = TracebackStatus
  /\ pc' = "exit"
  /\ UNCHANGED <<dialect, argument, files, unwritable, directory, written,
                 sources, index, converted, failed, warning_count, results,
                 stdout, call, arg, ret>>

\* After the loop: the summary line and the return.
MainSummary ==
  /\ pc = "loop"
  /\ index > Len(sources)
  /\ stdout' = Append(stdout, Line("Summary", <<>>,
                                   <<converted, failed, warning_count>>))
  /\ status' = exit_status(failed, warning_count)
  /\ pc' = "exit"
  /\ UNCHANGED <<dialect, argument, files, unwritable, directory, written,
                 sources, index, converted, failed, warning_count, results,
                 raised, call, arg, ret>>

Next ==
  \/ MainFileNotFound
  \/ MainWrongSuffix
  \/ MainNoFiles
  \/ MainLoop
  \/ Convert
  \/ ConvertRaises
  \/ MainSummary

Spec == Init /\ [][Next]_vars

(***************************************************************************)
(* The functions of the converters applied on their own                    *)
(***************************************************************************)

\* The texts are built from at most MaxLines lines, the values from at most
\* MaxValueLen characters.
MaxLines == 3
MaxValueLen == 3

\* The lines of the texts: an empty line, the delimiter, the fence lines of
\* the converter, each of them indented too, and a key with its value.
TextLines(d) ==
  {<<>>, Delimiter, <<" ">> \o Delimiter, Chars("k: v"), Marker(d), Fence,
   <<" ">> \o Fence}

\* A document wrapped in a fence, with a frontmatter block before the fence
\* and text after it.
WrappedText(d) ==
  Chars("---\ndescription: d\n---\n") \o Marker(d)
    \o Chars("\n---\nname: n\n---\nbody\n") \o Fence \o Chars("\nafter\n")

\* A document whose lines end as those of another platform do.
ForeignText == Chars("---\r\nk: v\r\n ---\r\nbody\fmore\r\n")

\* The lines of a frontmatter block: a key with its value, the key again
\* with blanks around it and other values, a comment with a colon and one
\* without, a blank line, and lines without a colon.
FrontmatterLines ==
  {Chars("k: v"), Chars(" k : w"), Chars("k: [1]"), Chars("# c: x"),
   Chars(" #"), <<" ">>, Chars("plain"), Chars("- item")}

\* The documents with a block of up to MaxLines such lines.
BlockTexts ==
  {JoinLines(<<Delimiter>> \o ls \o <<Delimiter, Chars("body")>>) :
     ls \in UNION {[1..n -> FrontmatterLines] : n \in 0..MaxLines}}

TextInputs(d) ==
  {JoinLines(ls) : ls \in UNION {[1..n -> TextLines(d)] : n \in 0..MaxLines}}
    \cup FileTexts(d) \cup {WrappedText(d), ForeignText} \cup BlockTexts

\* The values: the right-hand sides of frontmatter lines.
ValueAlphabet == {"[", "]", "'", "a", ",", " "}

NamedValues ==
  {Chars("[a, b, c]"), Chars("\"quoted\""), Chars("'quoted'"), Chars("foo"),
   Chars("[{[]}]"), Chars("['a', 'b']"), Chars(" [1, 2] "), Chars("[1, 2"),
   Chars("[a][0]"), Chars("\"a'")}

ValueInputs ==
  UNION {[1..n -> ValueAlphabet] : n \in 0..MaxValueLen} \cup NamedValues

\* A frontmatter value lies within one line.
one_line(s) == \A i \in DOMAIN s : s[i] \notin LineBreaks

ParseInit ==
  /\ dialect \in Dialects
  /\ arg \in TextInputs(dialect) \cup ValueInputs
  /\ call = ""
  /\ ret = <<>>
  /\ argument = NoArgument
  /\ files = EmptyDict
  /\ unwritable = {}
  /\ directory = FALSE
  /\ written = EmptyDict
  /\ pc = "call"
  /\ sources = <<>>
  /\ index = 0
  /\ converted = 0
  /\ failed = 0
  /\ warning_count = 0
  /\ results = <<>>
  /\ stdout = <<>>
  /\ status = -1
  /\ raised = ""

\* The function named is applied to arg and returns value.
Apply(name, value) ==
  /\ pc = "call"
  /\ call = ""
  /\ call' = name
  /\ ret' = value
  /\ UNCHANGED <<dialect, argument, files, unwritable, directory, written, pc,
                 sources, index, converted, failed, warning_count, results,
                 stdout, status, raised, arg>>

ExtractChatagentBlock ==
  /\ dialect = "agent"
  /\ Apply("extract_chatagent_block", extract_chatagent_block(arg))

ExtractPromptBlock ==
  /\ dialect = "prompt"
  /\ Apply("extract_prompt_block", extract_prompt_block(arg))

ParseFrontmatter == Apply("parse_frontmatter", parse_frontmatter(arg))

ParseYamlValue ==
  /\ one_line(arg)
  /\ Apply("parse_yaml_value", parse_yaml_value(arg))

\* convert_file on a readable source whose text is arg, up to the write.
ConvertText ==
  Apply("convert_file", convert_text(dialect, CandidateName(dialect, 1), arg))

ParseNext ==
  \/ ExtractChatagentBlock
  \/ ExtractPromptBlock
  \/ ParseFrontmatter
  \/ ParseYamlValue
  \/ ConvertText

ParseSpec == ParseInit /\ [][ParseNext]_vars

(***************************************************************************)
(* The batch driver: properties                                            *)
(***************************************************************************)

\* The positions of the failed results.
FailedResults == {i \in DOMAIN results : ~results[i].success}

\* C1: in the batch loop a failure while converting one file, whatever its
\* cause, never leaves the loop as an exception: the file gets a failed
\* ConversionResult, and every later file of the list is still converted, so
\* that a run that ends after the loop has a result for every source.
C1_NoExceptionLeavesLoop ==
  /\ raised = ""
  /\ pc = "exit" /\ sources # <<>> => Len(results) = Len(sources)

\* A source that cannot be decoded ends the run with files left unconverted.
C1_Undecodable ==
  /\ pc = "exit"
  /\ raised = "UnicodeDecodeError"
  /\ Len(results) + 1 < Len(sources)

\* The run passed the validation of its argument.
Validated ==
  single_file(argument) =>
    /\ is_file(files, argument.name)
    /\ EndsWith(argument.name, SourceSuffix(dialect))

\* C2: for every run that passes argument validation, the exit status is
\* non-zero if and only if the conversion of at least one file failed; the
\* number of warnings does not change it.
C2_ExitStatus ==
  pc = "exit" /\ Validated =>
    /\ status # 0 <=> (FailedResults # {} \/ raised # "")
    /\ sources = <<>> => status = 0

\* A run whose files all converted, with warnings, ends with status 0.
C2_WarningsOnly ==
  /\ pc = "exit"
  /\ Validated
  /\ Len(results) >= 2
  /\ FailedResults = {}
  /\ warning_count > 0
  /\ status = 0

RECURSIVE SumWarnings(_)
\* The warnings of a list of results, counted.
SumWarnings(rs) ==
  IF rs = <<>> THEN 0 ELSE Len(Head(rs).warnings) + SumWarnings(Tail(rs))

\* The run printed its summary line: the loop ran to its end.
Summarised ==
  /\ pc = "exit"
  /\ stdout # <<>>
  /\ stdout[Len(stdout)].kind = "Summary"

\* Three matching files, exactly one of which is unreadable while the other
\* two are texts whose destination can be written.
OneOfThreeUnreadable ==
  /\ ~single_file(argument)
  /\ Len(sources) = 3
  /\ Cardinality({i \in 1..3 : files[sources[i]].kind = "unreadable"}) = 1
  /\ \A i \in 1..3 :
       files[sources[i]].kind # "unreadable" =>
         /\ files[sources[i]].kind = "text"
         /\ output_name(dialect, sources[i]) \notin unwritable

\* C3: after the batch loop over n >= 1 files the summary counters satisfy
\* converted + failed = n, converted is the number of results with success
\* true, and warnings is the sum of the warnings of all results, failed ones
\* included; three files of which exactly one is unreadable give
\* converted=2, failed=1 and exit status 1.
C3_SummaryCounters ==
  Summarised =>
    /\ stdout[Len(stdout)].detail = <<converted, failed, warning_count>>
    /\ Len(results) = Len(sources)
    /\ converted + failed = Len(sources)
    /\ converted = Cardinality(DOMAIN results \ FailedResults)
    /\ warning_count = SumWarnings(results)
    /\ OneOfThreeUnreadable => converted = 2 /\ failed = 1 /\ status = 1

\* The summary of three files of which one is unreadable and one has warnings.
C3_OneOfThreeUnreadable ==
  /\ Summarised
  /\ OneOfThreeUnreadable
  /\ warning_count > 0
  /\ converted = 2
  /\ failed = 1

\* The single-file argument is given and names no existing file, or a file
\* whose name lacks the source suffix.
InvalidArgument ==
  /\ argument.given
  /\ \/ ~is_file(files, argument.name)
     \/ ~EndsWith(argument.name, SourceSuffix(dialect))

\* C4: when the single-file argument is given and names no existing file or
\* a name without the source suffix, the run returns 1 right after printing
\* one error line: convert_file is never called and neither a Converted or
\* Failed line nor a summary line is printed.
C4_InvalidArgumentAborts ==
  InvalidArgument =>
    /\ pc # "loop"
    /\ results = <<>>
    /\ pc = "exit" =>
         /\ status = 1
         /\ Len(stdout) = 1
         /\ stdout[1].kind \in {"Error: file not found", "Error: wrong suffix"}

\* The empty argument names no file, and the run converts the directory.
C4_EmptyArgument ==
  /\ argument = Argument(<<>>)
  /\ Summarised
  /\ converted > 0
  /\ status = 0

(***************************************************************************)
(* Frontmatter, fences and values: properties                              *)
(***************************************************************************)

\* The first line of a text: what precedes its first line boundary.
FirstLine(text) ==
  LET brk == {i \in 1..Len(text) : text[i] \in LineBreaks}
  IN  IF brk = {} THEN text ELSE SubSeq(text, 1, Min(brk) - 1)

\* The lines of a text after the first.
LaterLines(text) ==
  IF SplitLines(text) = <<>> THEN <<>> ELSE Tail(SplitLines(text))

\* C5: for every text whose first line, after trimming whitespace, is not
\* the delimiter (the empty text included), parse_frontmatter returns empty
\* metadata, the whole input text unchanged as body, and no warnings.
C5_NoLeadingDelimiter ==
  call = "parse_frontmatter" /\ Strip(FirstLine(arg)) # Delimiter =>
    /\ ret.raised = ""
    /\ ret.metadata = EmptyDict
    /\ ret.body = arg
    /\ ret.warnings = <<>>

\* parse_frontmatter has returned for a text of several lines that ends with
\* a newline and holds a delimiter, though not on its first line.
C5_DelimiterBelow ==
  /\ call = "parse_frontmatter"
  /\ Strip(FirstLine(arg)) # Delimiter
  /\ \E i \in DOMAIN LaterLines(arg) : LaterLines(arg)[i] = Delimiter
  /\ arg[Len(arg)] = "\n"
  /\ ret.body = arg

\* What parse_frontmatter returns for a block that is never closed.
SoftFailure ==
  /\ ret.raised = ""
  /\ ret.metadata = EmptyDict
  /\ ret.body = arg
  /\ ret.warnings = <<FrontmatterWarning>>

\* C6, with the delimiters read as the code reads them: for every text whose
\* first line, after trimming whitespace, is the delimiter and that has no
\* later line equal to the delimiter after trimming whitespace,
\* parse_frontmatter does not raise: it returns empty metadata, the full
\* input text as body and exactly one warning, and no key of the lines after
\* the opening delimiter is put into the metadata.
C6_UnclosedFrontmatter ==
  /\ call = "parse_frontmatter"
  /\ Strip(FirstLine(arg)) = Delimiter
  /\ \A i \in DOMAIN LaterLines(arg) : Strip(LaterLines(arg)[i]) # Delimiter
  => SoftFailure

\* parse_frontmatter has returned for an unclosed block that holds a key.
C6_UnclosedWithKey ==
  /\ call = "parse_frontmatter"
  /\ Strip(FirstLine(arg)) = Delimiter
  /\ \A i \in DOMAIN LaterLines(arg) : Strip(LaterLines(arg)[i]) # Delimiter
  /\ \E i \in DOMAIN LaterLines(arg) : LaterLines(arg)[i] = Chars("k: v")
  /\ SoftFailure

\* C6 as the specification words it: the first line is the delimiter and no
\* later line is equal to the delimiter.
C6_NoLineEqualToDelimiter ==
  /\ call = "parse_frontmatter"
  /\ FirstLine(arg) = Delimiter
  /\ \A i \in DOMAIN LaterLines(arg) : LaterLines(arg)[i] # Delimiter
  => SoftFailure

\* The lines of text that open a fenced block, and the lines after the first
\* of them that close it: a closing line is the fence itself when exact, the
\* fence after trimming whitespace otherwise.
Openers(text, marker) ==
  {i \in DOMAIN SplitLines(text) : StartsWith(Strip(SplitLines(text)[i]), marker)}

Closers(text, marker, exact) ==
  {j \in DOMAIN SplitLines(text) :
     /\ j > Min(Openers(text, marker))
     /\ IF exact THEN SplitLines(text)[j] = Fence
        ELSE Strip(SplitLines(text)[j]) = Fence}

\* The text has an opening fence line and no closing line after it.
Unclosed(text, marker) ==
  Openers(text, marker) # {} /\ Closers(text, marker, FALSE) = {}

\* The text has an opening fence line and a closing line after it.
Closed(text, marker, exact) ==
  Openers(text, marker) # {} /\ Closers(text, marker, exact) # {}

\* The lines strictly between the first opening line and the first closing
\* line after it, joined by newline.
Interior(text, marker, exact) ==
  JoinLines(SubSeq(SplitLines(text), Min(Openers(text, marker)) + 1,
                   Min(Closers(text, marker, exact)) - 1))

\* The function applied is the fence extractor of the converter.
Extracted == call \in {"extract_chatagent_block", "extract_prompt_block"}

\* The function applied is convert_file, of a converter that knows a fence.
ConvertedFenced == call = "convert_file" /\ dialect # "instruction"

\* The message of the converter for a fence that is never closed.
FenceWarning(d) == IF d = "prompt" THEN PromptWarning ELSE ChatagentWarning

\* C7: for every text that has a line starting, after trimming, with the
\* fence marker and no later closing line, the fence extractor returns the
\* original text unchanged with exactly one warning, and the conversion of
\* the file still succeeds using that text.
C7_UnclosedFence ==
  /\ Extracted /\ Unclosed(arg, Marker(dialect)) =>
       ret = [text |-> arg, warnings |-> <<FenceWarning(dialect)>>]
  /\ ConvertedFenced /\ Unclosed(arg, Marker(dialect)) =>
       ret.raised = "" /\ ret.working = arg

\* The conversion of a text with an unclosed fence ends with a TypeError.
C7_UnclosedFenceRaises ==
  /\ ConvertedFenced
  /\ Unclosed(arg, Marker(dialect))
  /\ ret.raised = "TypeError"

\* C8, with the closing line read as the code reads it: for every text with
\* an opening fence line and a later line that is the fence after trimming
\* whitespace, the working text handed to parse_frontmatter is exactly the
\* lines strictly between the first opening line and the first closing line
\* after it, joined by newline, and what the conversion gives is what it
\* gives for that interior alone: the text before the opening line and after
\* the closing line has no influence.
C8_FencedInterior ==
  /\ Extracted /\ Closed(arg, Marker(dialect), FALSE) =>
       ret = [text |-> Interior(arg, Marker(dialect), FALSE), warnings |-> <<>>]
  /\ ConvertedFenced /\ Closed(arg, Marker(dialect), FALSE) =>
       ret = convert_block(dialect, CandidateName(dialect, 1),
                           [text |-> Interior(arg, Marker(dialect), FALSE),
                            warnings |-> <<>>])

\* The conversion of a fenced document that has a frontmatter block before
\* the fence and one inside it took the block inside.
C8_FrontmatterBeforeFence ==
  /\ ConvertedFenced
  /\ Closed(arg, Marker(dialect), FALSE)
  /\ Strip(FirstLine(arg)) = Delimiter
  /\ Min(Openers(arg, Marker(dialect))) > 1
  /\ ret.raised = ""
  /\ DOMAIN ret.metadata = {Chars("name")}
  /\ ret.body = Chars("body")

\* C8 as the specification words it: the closing line is a line equal to
\* the fence.
C8_ClosingLineEqualToFence ==
  Extracted /\ Closed(arg, Marker(dialect), TRUE) =>
    ret.text = Interior(arg, Marker(dialect), TRUE)

\* C9: parse_yaml_value maps the value [a, b, c] to the sequence of the
\* strings a, b and c, the value quoted in matching single or double quotes
\* to its text without the quotes, and the bare value foo to foo.
C9_ValueGrammar ==
  call = "parse_yaml_value" =>
    /\ arg = Chars("[a, b, c]") =>
         ret = PyList(<<PyStr(Chars("a")), PyStr(Chars("b")), PyStr(Chars("c"))>>)
    /\ arg \in {Chars("\"quoted\""), Chars("'quoted'")} =>
         ret = PyStr(Chars("quoted"))
    /\ arg = Chars("foo") => ret = PyStr(Chars("foo"))

\* The value [a, b, c] comes back as the string it was.
C9_BareItemsKeptAsText ==
  /\ call = "parse_yaml_value"
  /\ arg = Chars("[a, b, c]")
  /\ ret = PyStr(Chars("[a, b, c]"))

\* The value, trimmed, starts with "[" and ends with "]".
Bracketed(value) ==
  StartsWith(Strip(value), <<"[">>) /\ EndsWith(Strip(value), <<"]">>)

\* C10: parse_yaml_value never raises: for every value that starts with "["
\* and ends with "]" and whose literal evaluation fails, for any reason, the
\* result is the raw trimmed bracketed string, so that such a value never
\* makes the conversion of its file fail.
C10_NeverRaises ==
  /\ call = "parse_yaml_value" => ~IsRaise(ret)
  /\ call = "parse_yaml_value" /\ Bracketed(arg)
       /\ IsRaise(literal_eval(Strip(arg))) => ret = PyStr(Strip(arg))
  /\ call = "convert_file" => ret.raised = ""

\* parse_yaml_value has raised the TypeError of a bracketed value.
C10_TypeErrorEscapes ==
  /\ call = "parse_yaml_value"
  /\ Bracketed(arg)
  /\ ret = Raise("TypeError")

(***************************************************************************)
(* The emitters, the description, the globs and the file names on their    *)
(* own                                                                     *)
(***************************************************************************)

\* A text of product names is built from at most MaxPieces pieces.
MaxPieces == 3

\* The pieces: the four product names, parts of them that could join into a
\* name, and what the replacements write.
Pieces ==
  {Chars("GitHub Copilot"), Chars("Visual Studio Code"), Chars("VS Code"),
   Chars("VSCode"), Chars("VS"), Chars(" Code"), Chars("Code"),
   Chars("Visual Studio"), Chars("GitHub "), Chars("Copilot"),
   Chars("Cursor"), Chars(" AI"), Chars(" ")}

BrandTexts ==
  {JoinWith(ps, <<>>) : ps \in UNION {[1..n -> Pieces] : n \in 0..MaxPieces}}

\* What the rule emitters are given.
Descriptions ==
  {<<>>, Chars("d"), Chars("a\"b"), Chars("a\\b"), Chars("VS Code: x")}

GlobLists ==
  {<<>>, <<Chars("*.go")>>, <<Chars("*.go"), Chars("*.rs")>>, <<Chars("**")>>,
   <<Chars("a:b")>>}

Bodies ==
  {<<>>, Chars("\n"), Chars("x"), Chars("x\n"), Chars("x\n\n"), Chars("\n\nx"),
   Chars("\nVSCode\n---\ny"), Chars(" x \t")}

\* What build_command_content is given: a description that is a str or None,
\* and the stem of the file name.
CommandDescriptions ==
  {PyNone, PyStr(<<>>), PyStr(Chars("d")), PyStr(Chars("  ")),
   PyStr(Chars("GitHub Copilot"))}

Stems == {<<>>, Chars("a"), Chars("my-tool_x"), Chars("API v2x"), Chars("o'neil")}

\* The values of applyTo: None for an absent key, else what parse_yaml_value
\* returns.
ApplyToValues ==
  {PyNone, PyStr(<<>>), PyStr(Chars("*.go, *.rs")), PyStr(Chars("**")),
   PyStr(Chars(" a ,, b ,")), PyStr(Chars("[*.go, *.rs]")),
   PyList(<<>>), PyList(<<PyStr(Chars(" *.go ")), PyStr(<<>>), PyInt(10)>>),
   PyList(<<PyStr(Chars("b")), PyStr(Chars("a,c")), PyStr(Chars("b"))>>),
   PyList(<<PyList(<<PyStr(Chars("it's"))>>), PyNone, PyBool(TRUE)>>),
   PyTuple(<<PyList(<<PyInt(1)>>), PyList(<<PyInt(2)>>)>>)}

\* The names of source files: each ends with the source suffix of the
\* converter, and some hold the suffix, or a part of it, earlier too.
NameStems(d) ==
  {Chars("a"), Chars("my-tool_x"), Chars("x") \o SourceSuffix(d),
   Chars("x") \o StemSuffix(d), Chars("x.md")}

NameInputs(d) == {stem \o SourceSuffix(d) : stem \in NameStems(d)}

\* The frontmatter lines of the documents converted, and the documents: a
\* block of at most two of the lines, then a body.
MetadataLines ==
  {Chars("description: \"Go/Rust style\""), Chars("description: \"  \""),
   Chars("description:"), Chars("description: [1, 2]"), Chars("description: []"),
   Chars("name: n"), Chars("name: ''"), Chars("name: [n]"),
   Chars("applyTo: \"*.go, *.rs\""), Chars("applyTo: \"**\""),
   Chars("applyTo: \" * \""), Chars("applyTo: **/*"), Chars("applyTo: ['*', 'a']"),
   Chars("applyTo: *.go"), Chars("applyTo: [\"***\"]"),
   Chars("applyTo: \"*.go\", \"*.rs\""),
   Chars("applyTo: [\"x\\nk: [{[]}]\\ny\"]"), Chars("globs: ['*']"),
   Chars("alwaysApply: true")}

MetadataTexts ==
  {JoinLines(<<Delimiter>> \o ls \o <<Delimiter, Chars("Body text")>>) :
     ls \in UNION {[1..n -> MetadataLines] : n \in 0..2}}

\* Documents with a fence: a closed block around a document, a description
\* that is the opening fence line above a body that ends with a fence, and a
\* fence that is closed above the line that opens it.
FencedTexts(d) ==
  {JoinLines(<<Marker(d), Delimiter, Chars("description: x"), Delimiter,
               Chars("Body text"), Fence>>),
   JoinLines(<<Delimiter, Chars("description: \"") \o Marker(d) \o <<"\"">>,
               Delimiter, Delimiter, Chars("k: [{[]}]"), Delimiter, Fence>>),
   JoinLines(<<Delimiter, Chars("name: n"), Delimiter, Fence, Marker(d),
               Delimiter, Chars("k: [{[]}]"), Delimiter>>)}

\* The inputs of the functions of converter d.
FileInputs(d) ==
  {[kind |-> "file", name |-> n, text |-> t] :
     n \in NameInputs(d), t \in MetadataTexts \cup FencedTexts(d)}

RuleInputs(globs_given) ==
  {[kind |-> "rule", description |-> de, globs |-> g, always_apply |-> f,
    body |-> b] :
     de \in Descriptions, g \in globs_given,
     f \in (IF globs_given = {<<>>} THEN {FALSE} ELSE BOOLEAN), b \in Bodies}

EmitInputs(d) ==
  IF d = "agent" THEN RuleInputs({<<>>}) \cup FileInputs(d)
  ELSE IF d = "instruction"
  THEN RuleInputs(GlobLists)
         \cup {[kind |-> "globs", apply_to |-> v] : v \in ApplyToValues}
         \cup FileInputs(d)
  ELSE {[kind |-> "text", text |-> t] : t \in BrandTexts}
         \cup {[kind |-> "command", description |-> de, body |-> b, stem |-> s] :
                 de \in CommandDescriptions, b \in Bodies, s \in Stems}
         \cup FileInputs(d)

EmitInit ==
  /\ dialect \in Dialects
  /\ arg \in EmitInputs(dialect)
  /\ call = ""
  /\ ret = <<>>
  /\ argument = NoArgument
  /\ files = EmptyDict
  /\ unwritable = {}
  /\ directory = FALSE
  /\ written = EmptyDict
  /\ pc = "call"
  /\ sources = <<>>
  /\ index = 0
  /\ converted = 0
  /\ failed = 0
  /\ warning_count = 0
  /\ results = <<>>
  /\ stdout = <<>>
  /\ status = -1
  /\ raised = ""

\* build_rule_content of agents2rules.py
BuildAgentRuleContent ==
  /\ dialect = "agent"
  /\ arg.kind = "rule"
  /\ Apply("build_rule_content", build_agent_rule_content(arg.description, arg.body))

\* build_rule_content of instructions2rules.py
BuildRuleContent ==
  /\ dialect = "instruction"
  /\ arg.kind = "rule"
  /\ Apply("build_rule_content",
           build_rule_content(arg.description, arg.globs, arg.always_apply,
                              arg.body))

\* The rule built is read back by parse_frontmatter.
RoundTrip ==
  /\ dialect = "instruction"
  /\ arg.kind = "rule"
  /\ Apply("round_trip",
           parse_frontmatter(build_rule_content(arg.description, arg.globs,
                                                arg.always_apply, arg.body)))

NormalizeGlobs ==
  /\ arg.kind = "globs"
  /\ Apply("normalize_globs", normalize_globs(arg.apply_to))

NormalizeText ==
  /\ arg.kind = "text"
  /\ Apply("normalize_text", normalize_text(arg.text))

BuildCommandContent ==
  /\ arg.kind = "command"
  /\ Apply("build_command_content",
           build_command_content(arg.description, arg.body, arg.stem))

\* output_name = source_path.name.replace(...)
OutputName ==
  /\ arg.kind = "file"
  /\ Apply("output_name", output_name(dialect, arg.name))

\* convert_file on a readable source of the name and text given, up to the
\* write.
ConvertNamed ==
  /\ arg.kind = "file"
  /\ Apply("convert_file", convert_text(dialect, arg.name, arg.text))

\* The second conversion: the content the first wrote is read as the
\* source, under the same name.
second_conversion(d, name, first) ==
  [first |-> first,
   second |-> IF first.raised # "" THEN first
              ELSE convert_text(d, name, read_text(first.content))]

\* convert_file on a source, then on what it wrote.
ConvertAgain ==
  /\ arg.kind = "file"
  /\ Apply("convert_again",
           second_conversion(dialect, arg.name,
                             convert_text(dialect, arg.name, arg.text)))

EmitNext ==
  \/ ConvertAgain
  \/ BuildAgentRuleContent
  \/ BuildRuleContent
  \/ RoundTrip
  \/ NormalizeGlobs
  \/ NormalizeText
  \/ BuildCommandContent
  \/ OutputName
  \/ ConvertNamed

EmitSpec == EmitInit /\ [][EmitNext]_vars

(***************************************************************************)
(* Properties of the emitters                                              *)
(***************************************************************************)

RuleBuilt == call = "build_rule_content"
ReadBack == call = "round_trip"

\* The metadata the rule was built from, as values: the description as it
\* was emitted, the glob list and the flag.
EmittedMetadata ==
  Put(Put(Put(EmptyDict,
    Chars("description"), PyStr(normalize_text(arg.description))),
    Chars("globs"), PyList([i \in 1..Len(arg.globs) |-> PyStr(arg.globs[i])])),
    Chars("alwaysApply"), PyBool(arg.always_apply))

\* C11: for every description, glob list, alwaysApply flag and body, the
\* text build_rule_content produces, read back by parse_frontmatter, gives
\* no warning, metadata with the same keys and values as the ones emitted,
\* and the body as it was emitted (one leading newline stripped).
C11_RoundTrip ==
  ReadBack =>
    /\ ret.raised = ""
    /\ ret.warnings = <<>>
    /\ ret.metadata = EmittedMetadata
    /\ ret.body = rule_body(arg.body)

\* A rule with one glob is read back with a warning for the item line and
\* the empty string for globs.
C11_GlobItemNotReadBack ==
  /\ ReadBack
  /\ arg.globs = <<Chars("*.go")>>
  /\ ret.warnings = <<UnrecognizedWarning(Chars("  - \"*.go\""))>>
  /\ Get(ret.metadata, Chars("globs")) = PyStr(<<>>)

Normalized == call = "normalize_text"

\* The four source names and what each becomes.
SourceNames ==
  {Chars("GitHub Copilot"), Chars("Visual Studio Code"), Chars("VS Code"),
   Chars("VSCode")}

Replacement(source_name) ==
  IF source_name = Chars("GitHub Copilot") THEN Chars("Cursor AI")
  ELSE Chars("Cursor")

\* sub occurs somewhere in s.
Occurs(s, sub) ==
  \E i \in 1..Len(s) : \E j \in i..Len(s) : SubSeq(s, i, j) = sub

\* C12: normalization is idempotent: the normalized text holds none of the
\* four source names, and normalizing it again changes nothing.
C12_Idempotent ==
  Normalized =>
    /\ \A source_name \in SourceNames : ~Occurs(ret, source_name)
    /\ normalize_text(ret) = ret

\* A text in which names and fragments of names touch is normalized: the
\* "Cursor" put in for VSCode stands between "VS" and " Code".
C12_FragmentsAroundName ==
  /\ Normalized
  /\ arg.text = Chars("VSVSCode Code")
  /\ ret = Chars("VSCursor Code")

RECURSIVE Simultaneous(_, _)
\* One pass over the original text from position i: where a source name
\* starts, its replacement is put and the name skipped; any other character
\* is copied.
Simultaneous(text, i) ==
  IF i > Len(text) THEN <<>>
  ELSE LET here == {n \in SourceNames : SubSeq(text, i, Min({Len(text), i + Len(n) - 1})) = n}
       IN  IF here = {} THEN <<text[i]>> \o Simultaneous(text, i + 1)
           ELSE LET n == CHOOSE m \in here : TRUE
                IN  Replacement(n) \o Simultaneous(text, i + Len(n))

\* C13: the four replacements applied in order give what one simultaneous
\* pass over the original text gives: nothing an earlier replacement put in
\* is matched by a later one.
C13_NoDoubleReplace ==
  Normalized => ret = Simultaneous(arg.text, 1)

\* A text with two different names and a name made by neither: the text put
\* in for the first stays as it is.
C13_TwoNames ==
  /\ Normalized
  /\ arg.text = Chars("GitHub CopilotVS CodeCode")
  /\ ret = Chars("Cursor AICursorCode")

Converted == call = "convert_file" /\ arg.kind = "file" /\ ret.raised = ""

\* A metadata value that is a string with something other than blanks in it.
NonEmptyString(val) == IsStr(val) /\ Strip(val.v) # <<>>

\* The name without the source suffix it ends with.
WithoutSuffix(name, suffix) == SubSeq(name, 1, Len(name) - Len(suffix))

\* The line of the emitted rule that holds the description.
DescriptionLine(text) ==
  Chars("description: ") \o yaml_quote(normalize_text(text))

\* C14: the agent rule's description is the metadata description if that is
\* a non-empty string, otherwise the metadata name if that is a non-empty
\* string, otherwise the file name without its ".agent.md" suffix.
C14_AgentDescription ==
  (Converted /\ dialect = "agent") =>
    LET description == Get(ret.metadata, Chars("description"))
        fallback == Get(ret.metadata, Chars("name"))
        expected == IF NonEmptyString(description) THEN description.v
                    ELSE IF NonEmptyString(fallback) THEN fallback.v
                    ELSE WithoutSuffix(arg.name, SourceSuffix("agent"))
    IN  SplitLines(ret.content)[2] = DescriptionLine(expected)

\* The file x.agent.agent.md, with neither field, gets the description "x".
C14_AgentTextInStem ==
  /\ Converted
  /\ dialect = "agent"
  /\ arg.name = Chars("x.agent.agent.md")
  /\ DOMAIN ret.metadata = {}
  /\ SplitLines(ret.content)[2] = DescriptionLine(Chars("x"))

GlobsNormalized == call = "normalize_globs"

\* The items in their order without the empty ones.
WithoutEmpty(items) ==
  LET kept == {i \in 1..Len(items) : items[i] # <<>>}
      nth(k) == CHOOSE i \in kept : Cardinality({j \in kept : j < i}) = k - 1
  IN  [k \in 1..Cardinality(kept) |-> items[nth(k)]]

\* The globs of an applyTo value, the values of the types in sequences being
\* the ones taken element by element.
GlobsOf(val, sequences) ==
  LET parts == SplitOn(py_str(val), ",")
  IN  IF val.t = "none" THEN <<>>
      ELSE IF val.t \in sequences
      THEN WithoutEmpty([i \in 1..Len(val.v) |-> Strip(py_str(val.v[i]))])
      ELSE WithoutEmpty([i \in 1..Len(parts) |-> Strip(parts[i])])

\* The scenario: applyTo "*.go, *.rs" with description "Go/Rust style".
GoRustScenario ==
  /\ Converted
  /\ dialect = "instruction"
  /\ Get(ret.metadata, Chars("applyTo")) = PyStr(Chars("*.go, *.rs"))
  /\ Get(ret.metadata, Chars("description")) = PyStr(Chars("Go/Rust style"))

GoRustRule ==
  <<Delimiter, Chars("description: \"Go/Rust style\""), Chars("globs:"),
    Chars("  - \"*.go\""), Chars("  - \"*.rs\""), Chars("alwaysApply: false"),
    Delimiter, Chars("Body text")>>

AlwaysApplyLine(content) ==
  LET lines == SplitLines(content)
      closing == CHOOSE i \in 2..Len(lines) :
                   /\ lines[i] = Delimiter
                   /\ \A j \in 2..(i - 1) : lines[j] # Delimiter
  IN  lines[closing - 1]

\* The globs of the file converted, as normalize_globs gives them.
FileGlobs == normalize_globs(Get(ret.metadata, Chars("applyTo")))

\* C16: the instruction converter emits alwaysApply: true if and only if
\* the normalized glob list has an element equal to "*" or to "**", and
\* alwaysApply: false otherwise.
C16_AlwaysApply ==
  (Converted /\ dialect = "instruction") =>
    /\ AlwaysApplyLine(ret.content)
         \in {Chars("alwaysApply: true"), Chars("alwaysApply: false")}
    /\ AlwaysApplyLine(ret.content) = Chars("alwaysApply: true")
         <=> (Chars("*") \in Range(FileGlobs) \/ Chars("**") \in Range(FileGlobs))

\* applyTo "**" is converted to alwaysApply: true.
C16_DoubleStar ==
  /\ Converted
  /\ dialect = "instruction"
  /\ Get(ret.metadata, Chars("applyTo")) = PyStr(Chars("**"))
  /\ AlwaysApplyLine(ret.content) = Chars("alwaysApply: true")

\* How many of the items are equal to item.
Count(items, item) == Cardinality({i \in 1..Len(items) : items[i] = item})

\* The prompt converter met a description that is there and is no string.
NonStringDescription ==
  /\ call = "convert_file"
  /\ arg.kind = "file"
  /\ dialect = "prompt"
  /\ Get(ret.metadata, Chars("description")).t \notin {"none", "str"}

RuleHeader ==
  Delimiter \o <<"\n">>
    \o DescriptionLine(arg.description) \o <<"\n">>
    \o (IF arg.globs = <<>> THEN Chars("globs: []") \o <<"\n">>
        ELSE Chars("globs:") \o <<"\n">>
               \o JoinWith([i \in 1..Len(arg.globs) |->
                              Chars("  - ") \o yaml_quote(arg.globs[i]) \o <<"\n">>],
                           <<>>))
    \o Chars("alwaysApply: ")
    \o (IF arg.always_apply THEN Chars("true") ELSE Chars("false")) \o <<"\n">>
    \o Delimiter \o <<"\n">>

\* C18: the text build_rule_content produces is the frontmatter lines
\* followed by the body without one leading newline, and it ends with
\* exactly one newline, never with two or more.
C18_RuleText ==
  RuleBuilt =>
    /\ StartsWith(ret, RuleHeader)
    /\ StartsWith(SubSeq(ret, Len(RuleHeader) + 1, Len(ret)), rule_body(arg.body))
    /\ EndsWith(ret, <<"\n">>)
    /\ ~EndsWith(ret, <<"\n", "\n">>)

\* The body "x" with two newlines after it is emitted with three.
C18_BlankLinesKept ==
  /\ RuleBuilt
  /\ arg.body = <<"x", "\n", "\n">>
  /\ EndsWith(ret, <<"x", "\n", "\n", "\n">>)

CommandBuilt == call = "build_command_content"

\* The text without the whitespace at its end.
RECURSIVE WithoutTrailingWhitespace(_)
WithoutTrailingWhitespace(text) ==
  IF text # <<>> /\ text[Len(text)] \in Whitespace
  THEN WithoutTrailingWhitespace(SubSeq(text, 1, Len(text) - 1))
  ELSE text

\* The title of the heading: the file name with "-" and "_" as blanks and
\* each word capitalised.
Heading(stem) ==
  LET spaced == [i \in 1..Len(stem) |->
                   IF stem[i] \in {"-", "_"} THEN " " ELSE stem[i]]
  IN  Chars("# ") \o Title(spaced)

\* The parts of a command in their order, before the end is trimmed.
CommandParts ==
  Heading(arg.stem) \o <<"\n">>
    \o (IF IsStr(arg.description) /\ arg.description.v # <<>>
        THEN normalize_text(arg.description.v) \o <<"\n">> ELSE <<>>)
    \o <<"\n">>
    \o InstructionLine \o <<"\n">>
    \o <<"\n">>
    \o normalize_text(arg.body)

\* C19: the text build_command_content produces is the heading line, the
\* description line if the description is a non-empty string, a blank line,
\* the fixed line, a blank line and the normalized body, with the whitespace
\* at the end removed and one newline put after it.
C19_CommandText ==
  CommandBuilt =>
    /\ ret = WithoutTrailingWhitespace(CommandParts) \o <<"\n">>
    /\ EndsWith(ret, <<"\n">>)
    /\ ~EndsWith(ret, <<"\n", "\n">>)

\* A description of two blanks and a body that ends with blank lines.
C19_BlankDescription ==
  /\ CommandBuilt
  /\ arg.description = PyStr(Chars("  "))
  /\ arg.body = <<"x", "\n", "\n">>
  /\ arg.stem = Chars("my-tool_x")
  /\ ret = Chars("# My Tool X") \o <<"\n">> \o Chars("  ") \o <<"\n", "\n">>
             \o InstructionLine \o <<"\n", "\n", "x", "\n">>

Named == call = "output_name"

\* C20: the destination name is the source name with its trailing source
\* suffix, and nothing else, replaced by the destination suffix.
C20_DestinationName ==
  Named =>
    ret = WithoutSuffix(arg.name, SourceSuffix(dialect))
            \o DestinationSuffix(dialect)

\* The source suffix earlier in the name is replaced as well.
C20_SuffixTwice ==
  /\ Named
  /\ dialect = "agent"
  /\ arg.name = Chars("x.agent.md.agent.md")
  /\ ret = Chars("x.mdc.mdc")

(***************************************************************************)
(* The order of the output, the results and the file system: properties    *)
(***************************************************************************)

\* The run converts the candidates of the source directory.
DirectoryMode == ~single_file(argument) /\ collect_files(dialect, files) # <<>>

\* The lines of one file as the claim orders them: the status line, then a
\* line for each warning in the order recorded.
FileLines(result) ==
  <<[kind |-> IF result.success THEN "Converted" ELSE "Failed",
     source |-> result.source,
     detail |-> IF result.success THEN result.destination[1] ELSE result.error]>>
    \o [i \in 1..Len(result.warnings) |->
          [kind |-> "Warning", source |-> result.source,
           detail |-> result.warnings[i]]]

\* The lines of the files converted so far, file after file.
LinesSoFar == JoinWith([i \in 1..Len(results) |-> FileLines(results[i])], <<>>)

\* The sources are in ascending order, each once.
Ascending(names) ==
  \A i \in 1..Len(names) : \A j \in 1..Len(names) :
    i < j => StrLess(names[i], names[j])

SummaryLines == {i \in 1..Len(stdout) : stdout[i].kind = "Summary"}

\* C21: in directory mode the candidates are converted one at a time in
\* ascending order of their paths; the lines printed are, file after file in
\* that order, the status line and then the warning lines of the file; and
\* the run prints exactly one summary line, after the lines of its last
\* file.
C21_PrintedInOrder ==
  DirectoryMode =>
    /\ pc = "loop" =>
         /\ stdout = LinesSoFar
         /\ Ascending(sources)
         /\ [i \in 1..Len(results) |-> results[i].source]
              = SubSeq(sources, 1, Len(results))
    /\ pc = "exit" =>
         /\ Len(results) = Len(sources)
         /\ stdout = Append(LinesSoFar, stdout[Len(stdout)])
         /\ SummaryLines = {Len(stdout)}

\* The lines of the first file are printed, the second cannot be decoded,
\* and the run is over without a summary line.
C21_NoSummaryLine ==
  /\ DirectoryMode
  /\ pc = "exit"
  /\ raised # ""
  /\ Len(results) = 1
  /\ Len(results[1].warnings) > 0
  /\ stdout = LinesSoFar
  /\ SummaryLines = {}

ConvertedAgain == call = "convert_again" /\ ret.first.raised = ""

\* C22: for every document whose conversion succeeds, the conversion of the
\* text emitted, by the same converter, ends without an exception as well.
C22_SecondConversion ==
  ConvertedAgain => ret.second.raised = ""

\* A glob with line breaks in it is emitted as three lines, the second of
\* which is read back as a frontmatter line whose value cannot be hashed.
C22_GlobOfThreeLines ==
  /\ ConvertedAgain
  /\ dialect = "instruction"
  /\ SplitLines(ret.first.content)[5] = Chars("k: [{[]}]")
  /\ ret.second.raised = "TypeError"

(***************************************************************************)
(* The frontmatter block: properties                                       *)
(***************************************************************************)

\* parse_frontmatter has returned for a text, given as its characters.
FrontmatterParsed == call = "parse_frontmatter" /\ ret.raised = ""

\* The lines after the first that are delimiter lines, by their index.
DelimitersBelow(lines) ==
  {i \in 2..Len(lines) : Strip(lines[i]) = Delimiter}

\* The text has a block: its first line is a delimiter line and so is a
\* later one.
HasBlock(text) ==
  Strip(FirstLine(text)) = Delimiter /\ DelimitersBelow(SplitLines(text)) # {}

\* The lines between the first line and the first delimiter line below it,
\* and the lines after that one.
BlockLines(lines) == SubSeq(lines, 2, Min(DelimitersBelow(lines)) - 1)

BelowBlock(lines) ==
  SubSeq(lines, Min(DelimitersBelow(lines)) + 1, Len(lines))

\* The key of a line with a colon: what stands before the first, trimmed.
KeyOf(line) == Strip(SubSeq(line, 1, FindFrom(line, <<":">>, 1) - 1))

\* Every key of the metadata comes from a line of the block, and the body
\* is the lines below it joined by newlines.
SplitAtFirstDelimiter(block, below) ==
  /\ \A key \in DOMAIN ret.metadata :
       \E i \in DOMAIN block : ":" \in Range(block[i]) /\ KeyOf(block[i]) = key
  /\ ret.body = JoinWith(below, <<"\n">>)

\* C23: when the first line is a delimiter line and a later one exists, the
\* block is closed by the first delimiter line below line 0: every key of
\* the metadata comes from a line between the two, and the body is the
\* lines after the closing one joined by newlines, later delimiter lines
\* included as they are; the text of two delimiter lines gives empty
\* metadata, an empty body and no warnings.
C23_FirstClosingDelimiter ==
  (FrontmatterParsed /\ HasBlock(arg)) =>
    /\ SplitAtFirstDelimiter(BlockLines(SplitLines(arg)),
                             BelowBlock(SplitLines(arg)))
    /\ SplitLines(arg) = <<Delimiter, Delimiter>> =>
         ret = Frontmatter("", EmptyDict, <<>>, <<>>)

\* A block that is empty, with a delimiter line below it that is indented.
C23_DelimiterInBody ==
  /\ FrontmatterParsed
  /\ arg = JoinLines(<<Delimiter, Delimiter, <<" ">> \o Delimiter>>)
  /\ ret = Frontmatter("", EmptyDict, <<" ">> \o Delimiter, <<>>)

\* The lines of the block that set a key, by their index in the block:
\* they hold a colon and are neither blank nor comments.
KeyLines(block) ==
  {i \in DOMAIN block :
     /\ ":" \in Range(block[i])
     /\ Strip(block[i]) # <<>>
     /\ Head(Strip(block[i])) # "#"}

\* What stands after the first colon of a line.
RawValueOf(line) == SubSeq(line, FindFrom(line, <<":">>, 1) + 1, Len(line))

\* The last of the lines at that set the key.
LastLineOf(block, at, key) ==
  CHOOSE i \in at :
    /\ KeyOf(block[i]) = key
    /\ \A j \in at : KeyOf(block[j]) = key => j <= i

\* The metadata holds the keys of the lines at, each with the parsed value
\* of the last line that sets it.
LastWriteWins(block, at) ==
  /\ DOMAIN ret.metadata = {KeyOf(block[i]) : i \in at}
  /\ \A key \in DOMAIN ret.metadata :
       ret.metadata[key]
         = parse_yaml_value(RawValueOf(block[LastLineOf(block, at, key)]))

\* C24: the metadata has exactly one entry for each distinct trimmed key of
\* the lines that hold a colon and are neither blank nor comments, and its
\* value is the parsed value of the last line with that key.
C24_LastWriteWins ==
  (FrontmatterParsed /\ HasBlock(arg)) =>
    LastWriteWins(BlockLines(SplitLines(arg)),
                  KeyLines(BlockLines(SplitLines(arg))))

\* The key k is set three times: to a text, to a list, and to a text again.
C24_KeyThreeTimes ==
  /\ FrontmatterParsed
  /\ arg = JoinLines(<<Delimiter, Chars("k: v"), Chars("k: [1]"), Chars(" k : w"),
                       Delimiter, Chars("body")>>)
  /\ DOMAIN ret.metadata = {Chars("k")}
  /\ ret.metadata[Chars("k")] = PyStr(Chars("w"))

\* The lines of the block that are not blank, are no comments and hold no
\* colon, in their order.
ColonlessLines(block) ==
  LET at == {i \in DOMAIN block :
               /\ ":" \notin Range(block[i])
               /\ Strip(block[i]) # <<>>
               /\ Head(Strip(block[i])) # "#"}
      nth(k) == CHOOSE i \in at : Cardinality({j \in at : j < i}) = k - 1
  IN  [k \in 1..Cardinality(at) |-> block[nth(k)]]

\* The warnings are those of the lines given, one each and in their order,
\* and none of the lines is a key.
OneWarningEach(colonless) ==
  /\ Len(ret.warnings) = Len(colonless)
  /\ \A k \in DOMAIN ret.warnings :
       ret.warnings[k] = Chars("Unrecognized frontmatter line: ") \o colonless[k]
  /\ \A k \in DOMAIN colonless :
       \A key \in DOMAIN ret.metadata : Strip(colonless[k]) # key

\* C25: in a well-formed block every line that is not blank, is no comment
\* and holds no colon adds one "Unrecognized frontmatter line" warning and
\* no entry, and no other line adds a warning: the warnings are those of the
\* colon-less lines, one each, in their order.
C25_UnrecognizedLines ==
  (FrontmatterParsed /\ HasBlock(arg)) =>
    OneWarningEach(ColonlessLines(BlockLines(SplitLines(arg))))

\* A block of a comment without a colon, a blank line and a line without a
\* colon gives the one warning and no entry.
C25_CommentBlankPlain ==
  /\ FrontmatterParsed
  /\ arg = JoinLines(<<Delimiter, Chars(" #"), <<" ">>, Chars("plain"),
                       Delimiter, Chars("body")>>)
  /\ ret.warnings = <<Chars("Unrecognized frontmatter line: plain")>>
  /\ ret.metadata = EmptyDict

(***************************************************************************)
(* The results and the file system: properties                             *)
(***************************************************************************)

\* The read of the source of the result failed.
ReadFailed(result) == files[result.source].kind = "unreadable"

\* The write of the destination of the result failed.
WriteFailed(result) ==
  /\ ~ReadFailed(result)
  /\ output_name(dialect, result.source) \in unwritable

\* The warnings the parse of the source of the result collects.
ParseWarnings(result) ==
  convert_text(dialect, result.source,
               read_text(files[result.source].text)).warnings

\* C26: every result has success true exactly if it has no error and no
\* destination exactly if the read of the source failed; the result of a
\* failed write has its destination, success false and the warnings of the
\* parse; and every input file gets exactly one result.
C26_ConversionResults ==
  /\ \A i \in DOMAIN results :
       /\ results[i].success <=> results[i].error = ""
       /\ results[i].destination = <<>> <=> ReadFailed(results[i])
       /\ WriteFailed(results[i]) =>
            /\ results[i].destination = <<output_name(dialect, results[i].source)>>
            /\ ~results[i].success
            /\ results[i].warnings = ParseWarnings(results[i])
  /\ (pc = "exit" /\ sources # <<>>) =>
       [i \in DOMAIN results |-> results[i].source] = sources

\* The write of the first file fails and its warning is kept; the second
\* file cannot be decoded and gets no result.
C26_NoResultForSecondFile ==
  /\ pc = "exit"
  /\ Len(sources) >= 2
  /\ Len(results) = 1
  /\ WriteFailed(results[1])
  /\ Len(results[1].warnings) > 0
  /\ files[sources[2]].kind = "undecodable"
  /\ raised = "UnicodeDecodeError"

\* The fields of the source that speak of where a rule applies.
ApplicabilityFields == {Chars("applyTo"), Chars("globs"), Chars("alwaysApply")}

\* C27: every rule the agent converter emits has, below its description
\* line, the lines "globs: []" and "alwaysApply: false" and the closing
\* delimiter, whatever the metadata of the source holds.
C27_AgentRuleApplicability ==
  (Converted /\ dialect = "agent") =>
    /\ SplitLines(ret.content)[1] = Delimiter
    /\ SubSeq(SplitLines(ret.content), 3, 5)
         = <<Chars("globs: []"), Chars("alwaysApply: false"), Delimiter>>

\* A source with the fields globs: ['*'] and alwaysApply: true.
C27_FieldsIgnored ==
  /\ Converted
  /\ dialect = "agent"
  /\ Get(ret.metadata, Chars("globs")) = PyList(<<PyStr(<<"*">>)>>)
  /\ Get(ret.metadata, Chars("alwaysApply")) = PyStr(Chars("true"))
  /\ SplitLines(ret.content)[4] = Chars("alwaysApply: false")

\* A source was converted whose description is there and is no string.
DescriptionOfOtherType ==
  /\ Converted
  /\ Get(ret.metadata, Chars("description")).t \notin {"none", "str"}

\* The description the rule converters fall back to: the name if it is a
\* string that is not blank (agent converter only), else the file name.
FallbackDescription ==
  IF dialect = "agent" /\ NonEmptyString(Get(ret.metadata, Chars("name")))
  THEN Get(ret.metadata, Chars("name")).v
  ELSE filename_stem(dialect, arg.name)

\* The warnings of the conversion of the text of the source by converter d.
WarningsOf(d) ==
  convert_text(d, Chars("a") \o SourceSuffix(d), arg.text).warnings

\* C28: for a description that is present and is no string, the agent and
\* the instruction converter add no warning to those of the parse and use
\* their fallback, and the prompt converter adds one warning: for the same
\* source the warnings of the prompt converter are those of each of the
\* other two and one more.
C28_WarningByDialect ==
  DescriptionOfOtherType =>
    /\ dialect \in {"agent", "instruction"} =>
         /\ ret.warnings = parse_frontmatter(arg.text).warnings
         /\ SplitLines(ret.content)[2] = DescriptionLine(FallbackDescription)
    /\ dialect = "prompt" =>
         ret.warnings = Append(parse_frontmatter(arg.text).warnings,
                               DescriptionWarning)
    /\ WarningsOf("prompt") = Append(WarningsOf("agent"), DescriptionWarning)
    /\ WarningsOf("prompt") = Append(WarningsOf("instruction"), DescriptionWarning)

\* The agent converter meets the description [1, 2] beside a name, warns of
\* nothing and takes the name.
C28_AgentTakesName ==
  /\ DescriptionOfOtherType
  /\ dialect = "agent"
  /\ Get(ret.metadata, Chars("name")) = PyStr(<<"n">>)
  /\ ret.warnings = <<>>
  /\ SplitLines(ret.content)[2] = Chars("description: \"n\"")

\* The argument names a single file that is missing or has the wrong
\* suffix: the input error that ends the whole run.
FatalInput ==
  /\ single_file(argument)
  /\ \/ ~is_file(files, argument.name)
     \/ ~EndsWith(argument.name, SourceSuffix(dialect))

\* C29: the step that ends a run with the input error leaves the file
\* system as it was: no file is written and no directory is made.
C29_FatalInputLeavesFileSystem ==
  [][(FatalInput /\ pc = "start" /\ pc' = "exit")
       => (directory' = directory /\ written' = written)]_vars

\* The run has ended with the error line, and the destination directory,
\* which was not there, is.
C29_DirectoryMade ==
  /\ FatalInput
  /\ pc = "exit"
  /\ status = 1
  /\ Len(stdout) = 1
  /\ stdout[1].kind = "Error: file not found"
  /\ written = EmptyDict
  /\ directory

(***************************************************************************)
(* The two rule converters, run one after the other                        *)
(*                                                                         *)
(* agents2rules.py reads copilot/agents, instructions2rules.py reads       *)
(* copilot/instructions, and both write to cursor/rules.  files holds the  *)
(* candidates of both source directories, written the one rules directory. *)
(***************************************************************************)

\* The candidates of each of the two source directories.
MaxPairFiles == 2

RuleDialects == {"agent", "instruction"}

PairNames ==
  {CandidateName(d, k) : d \in RuleDialects, k \in 1..MaxPairFiles}

\* A document whose metadata names it: the agent converter takes the name
\* for the description, the instruction converter the file name.
NamedText == Chars("---\nname: n\n---\nhi")

PairStates == {Absent, TextFile(PlainText), TextFile(NamedText)}

\* The runs that have ended: each prints one last line.
RunsEnded ==
  Cardinality({i \in 1..Len(stdout) :
                 stdout[i].kind \in {"Summary", "No files found"}})

PairInit ==
  /\ dialect \in RuleDialects
  /\ argument = NoArgument
  /\ files \in [PairNames -> PairStates]
  /\ unwritable = {}
  /\ directory = FALSE
  /\ written = EmptyDict
  /\ pc = "start"
  /\ sources = <<>>
  /\ index = 0
  /\ converted = 0
  /\ failed = 0
  /\ warning_count = 0
  /\ results = <<>>
  /\ stdout = <<>>
  /\ status = -1
  /\ raised = ""
  /\ Idle

\* The first converter has ended; the other one is started.
RunOther ==
  /\ pc = "exit"
  /\ RunsEnded = 1
  /\ dialect' = IF dialect = "agent" THEN "instruction" ELSE "agent"
  /\ pc' = "start"
  /\ status' = -1
  /\ sources' = <<>>
  /\ index' = 0
  /\ UNCHANGED <<argument, files, unwritable, directory, written, converted,
                 failed, warning_count, results, stdout, raised, call, arg, ret>>

\* The documents of PairStates can all be read and parsed, so that no run
\* is left by an exception.
PairNext ==
  \/ MainNoFiles
  \/ MainLoop
  \/ Convert
  \/ MainSummary
  \/ RunOther

PairSpec == PairInit /\ [][PairNext]_vars

\* Both converters have run.
BothRan == pc = "exit" /\ RunsEnded = 2

\* The converter that reads a source.
DialectOf(source) ==
  IF EndsWith(source, SourceSuffix("agent")) THEN "agent" ELSE "instruction"

\* What the conversion of a source writes.
ConversionOf(source) ==
  convert_text(DialectOf(source), source, read_text(files[source].text)).content

Successes == {i \in DOMAIN results : results[i].success}

\* C30: after both rule converters have run, in either order, no two
\* sources reported as converted have the same destination, and the
\* destination of each holds the conversion of that source.
C30_DestinationsApart ==
  BothRan =>
    /\ \A i \in Successes : \A j \in Successes :
         i # j => results[i].destination # results[j].destination
    /\ \A i \in Successes :
         written[results[i].destination[1]] = ConversionOf(results[i].source)

\* a.agent.md and a.instructions.md are both reported as converted to
\* a.mdc, which holds the conversion of the one converted last.
C30_SameDestination ==
  /\ BothRan
  /\ \E i \in Successes : \E j \in Successes :
       /\ results[i].source = Chars("a.agent.md")
       /\ results[j].source = Chars("a.instructions.md")
       /\ results[i].destination = <<Chars("a.mdc")>>
       /\ results[j].destination = <<Chars("a.mdc")>>
       /\ i < j
       /\ written[Chars("a.mdc")] = ConversionOf(results[j].source)
       /\ written[Chars("a.mdc")] # ConversionOf(results[i].source)

====
